---- MODULE Spec2Model ----
(***************************************************************************)
(* Jelly Bean World: the Python binding of the simulator                   *)
(* (api/python/src/jbw/simulator.cpp), the Metropolis-Hastings field       *)
(* sampler (jbw/gibbs_field.h) and the energy-function registry            *)
(* (energy_functions.h).                                                   *)
(*                                                                         *)
(* The module holds several state machines over one set of variables; each *)
(* specification drives one group of variables and leaves the others at    *)
(* their initial value:                                                    *)
(*   SpecSim    local simulator: agents, semaphores, quorum, on_step       *)
(*   SpecField  gibbs_field::sample (MH_SAMPLING)                          *)
(*   SpecFns    get_*_fn, read / write of energy functions                 *)
(*   SpecRegen  gibbs_field_cache::regeneration                            *)
(*   SpecSnap   simulator_save / simulator_load                            *)
(*   SpecStates simulator_agent_states (local and client mode)             *)
(*   SpecClient    move / turn / no_op / set_active in client mode         *)
(*   SpecPerms     simulator_get_permissions / simulator_set_permissions   *)
(*   SpecReconnect simulator_reconnect_client                              *)
(*   SpecStepper   conflict resolution of the stepper                      *)
(*   SpecResample  gibbs_field::resample                                   *)
(*   SpecCache     gibbs_field_cache::interaction                          *)
(*   SpecInteraction  the built-in interaction functions and the cache    *)
(*   SpecSample    SpecField with a fair patch loop                        *)
(*   SpecGibbs     the position lists of GIBBS_SAMPLING                    *)
(*   SpecShuffle   shuffle, one loop pass per step                         *)
(*   SpecOwned     agent_ids against the agent table, per thread           *)
(*   SpecWait      wait_for_server against the listener thread             *)
(*   SpecLocks     the agent locks of the callers of get_agent_states      *)
(***************************************************************************)
EXTENDS Integers, Sequences, FiniteSets, TLC

VARIABLES
    \* ---- simulator (SpecSim)
    time,               \* simulator::time
    agents,             \* simulator agent table: id -> [active, requested_action]
    semaphores,         \* simulator semaphore table: id -> signaled flag
    reporters,          \* semaphores that reported in the current tick
    acted_agent_count,  \* the coordinator's counter of responders this tick
    agent_id_counter,   \* next agent id
    semaphore_id_counter, \* next semaphore id
    agent_ids,          \* py_simulator_data::agent_ids
    semaphore_ids,      \* py_simulator_data::semaphore_ids
    py_result,          \* what the last binding call returned to Python
    step_info,          \* what the last on_step saw
    succeeded,          \* per agent: requests answered True in the current tick
    last_call,          \* the last binding call: <<name, id>>
    \* ---- energy-function registry (SpecFns)
    fns,                \* one lookup: kind, type (tag), num_args, fn, back, stream, loaded
    regen,              \* one regeneration call: fn, args, time, value, oob
    \* ---- snapshot (SpecSnap)
    snap,               \* simulator_save / simulator_load: simulator, file, result
    \* ---- agent state query (SpecStates)
    qry,                \* simulator_agent_states: mode, ids, agent table, result
    \* ---- field sampler (SpecField)
    patches,            \* patch id -> items of the patch
    patch_i,            \* gibbs_field::sample: index i of the patch loop
    proposal,           \* the proposal of the last patch update
    sweep,              \* the running sample call: pc, patches visited, item counts at entry
    \* ---- binding client (SpecClient): py_client_data, threads, requests in flight
    cli,
    \* ---- client permissions (SpecPerms): the server's permissions of one client, last result
    perm,
    \* ---- client reconnect (SpecReconnect): the server's answer and the lists built from it
    recon,
    \* ---- stepper (SpecStepper): positions, pending moves, conflict resolution
    stp,
    \* ---- regeneration pass (SpecResample): what the last gibbs_field::resample did
    rs,
    \* ---- interaction cache (SpecCache): one lookup compared with the direct call
    ich,
    \* ---- interaction functions (SpecInteraction): one call, its translate, the cache's answer
    ifn,
    \* ---- Gibbs sweep (SpecGibbs): patch size, the four position lists, the cells visited
    gib,
    \* ---- shuffle (SpecShuffle): one call, one loop pass per step
    shf,
    \* ---- owned agent ids (SpecOwned): agent_ids against the agent table, per thread
    own,
    \* ---- wait_for_server (SpecWait): mutex, condition variable, waiting threads, listener
    wt,
    \* ---- agent locks (SpecLocks): one caller of get_agent_states
    lk

simVars == <<time, agents, semaphores, reporters, acted_agent_count,
             agent_id_counter, semaphore_id_counter, agent_ids, semaphore_ids,
             py_result, step_info, succeeded, last_call>>

fieldVars == <<patches, patch_i, proposal, sweep>>

vars == <<simVars, fns, regen, snap, qry, fieldVars, cli, perm, recon, stp, rs, ich, ifn, gib, shf, own, wt, lk>>

nonSimVars == <<fns, regen, snap, qry, fieldVars, cli, perm, recon, stp, rs, ich, ifn, gib, shf, own, wt, lk>>
nonFnsVars == <<simVars, regen, snap, qry, fieldVars, cli, perm, recon, stp, rs, ich, ifn, gib, shf, own, wt, lk>>
nonRegenVars == <<simVars, fns, snap, qry, fieldVars, cli, perm, recon, stp, rs, ich, ifn, gib, shf, own, wt, lk>>
nonSnapVars == <<simVars, fns, regen, qry, fieldVars, cli, perm, recon, stp, rs, ich, ifn, gib, shf, own, wt, lk>>
nonQryVars == <<simVars, fns, regen, snap, fieldVars, cli, perm, recon, stp, rs, ich, ifn, gib, shf, own, wt, lk>>
nonFieldVars == <<simVars, fns, regen, snap, qry, cli, perm, recon, stp, rs, ich, ifn, gib, shf, own, wt, lk>>
nonCliVars == <<simVars, fns, regen, snap, qry, fieldVars, perm, recon, stp, rs, ich, ifn, gib, shf, own, wt, lk>>
nonPermVars == <<simVars, fns, regen, snap, qry, fieldVars, cli, recon, stp, rs, ich, ifn, gib, shf, own, wt, lk>>
nonReconVars == <<simVars, fns, regen, snap, qry, fieldVars, cli, perm, stp, rs, ich, ifn, gib, shf, own, wt, lk>>
nonStepVars == <<simVars, fns, regen, snap, qry, fieldVars, cli, perm, recon, rs, ich, ifn, gib, shf, own, wt, lk>>
nonRsVars == <<simVars, fns, regen, snap, qry, fieldVars, cli, perm, recon, stp, ich, ifn, gib, shf, own, wt, lk>>
nonIchVars == <<simVars, fns, regen, snap, qry, fieldVars, cli, perm, recon, stp, rs, ifn, gib, shf, own, wt, lk>>
nonIfnVars == <<simVars, fns, regen, snap, qry, fieldVars, cli, perm, recon, stp, rs, ich, gib, shf, own, wt, lk>>
nonGibVars == <<simVars, fns, regen, snap, qry, fieldVars, cli, perm, recon, stp, rs, ich, ifn, shf, own, wt, lk>>
nonShfVars == <<simVars, fns, regen, snap, qry, fieldVars, cli, perm, recon, stp, rs, ich, ifn, gib, own, wt, lk>>
nonOwnVars == <<simVars, fns, regen, snap, qry, fieldVars, cli, perm, recon, stp, rs, ich, ifn, gib, shf, wt, lk>>
nonWtVars == <<simVars, fns, regen, snap, qry, fieldVars, cli, perm, recon, stp, rs, ich, ifn, gib, shf, own, lk>>
nonLkVars == <<simVars, fns, regen, snap, qry, fieldVars, cli, perm, recon, stp, rs, ich, ifn, gib, shf, own, wt>>

(***************************************************************************)
(* Bounds of the model.                                                    *)
(***************************************************************************)
MaxAgents == 2
MaxSemaphores == 1
MaxTime == 2
MaxTag == 7          \* tags 0..MaxTag are tried, the built-ins and beyond
MaxNumArgs == 9      \* num_args 0..MaxNumArgs are tried
MaxRegenArgs == 2    \* longest args array of a regeneration function
MaxRegenTime == 3    \* latest tick a regeneration function is called at
MaxId == 3           \* agent and semaphore ids 1..MaxId of a snapshot or a query
MaxOwned == 2        \* longest owned id list of a saved simulator
MaxQuery == 3        \* longest id list handed to simulator_agent_states
MaxItems == 2        \* births are proposed while the batch holds fewer items
MaxThreads == 2      \* Python threads sharing one client handle
MaxRequests == 3     \* requests one client sends
MaxPermCalls == 2    \* permission calls on one server handle
MaxSteps == 1        \* ticks the stepper runs
MaxResample == 2     \* regeneration passes over the batch

(***************************************************************************)
(* Sequence helpers (core::array).                                         *)
(***************************************************************************)
Range(s) == {s[i] : i \in 1..Len(s)}

\* array::index_of: the first index holding v, or the length when absent
\* (1-based here: Len(s) + 1 when absent).
index_of(s, v) ==
    IF v \in Range(s) THEN CHOOSE i \in 1..Len(s) : s[i] = v /\ \A j \in 1..(i - 1) : s[j] # v
    ELSE Len(s) + 1

\* array::remove(index): the last element is moved into the freed slot.
array_remove(s, i) ==
    IF i = Len(s) THEN SubSeq(s, 1, Len(s) - 1)
    ELSE [k \in 1..(Len(s) - 1) |-> IF k = i THEN s[Len(s)] ELSE s[k]]

(***************************************************************************)
(* The simulator core (simulator.h): agent table, semaphores, coordinator. *)
(***************************************************************************)
Directions == {"UP", "RIGHT"}
NONE == [kind |-> "NONE"]
Actions == [kind : {"MOVE"}, dir : Directions, steps : {1}]
             \cup [kind : {"TURN"}, dir : Directions]
             \cup {[kind |-> "NO_OP"]}

ActiveAgents == {a \in DOMAIN agents : agents[a].active}

\* expected_responders = active agents and semaphores
ExpectedCount == Cardinality(ActiveAgents) + Cardinality(DOMAIN semaphores)

\* Step 7 of the stepper: clear pending actions, re-arm the coordinator.
ResetAgents(ag) == [a \in DOMAIN ag |-> [ag[a] EXCEPT !.requested_action = NONE]]

\* on_step(sim, agents, time): one state per owned agent id, looked up in the
\* agent table; trigger records the binding call whose request ran the stepper.
on_step(ag, ids, t, pending, call) ==
    [time |-> t,
     states |-> [i \in 1..Len(ids) |-> IF ids[i] \in DOMAIN ag THEN ids[i] ELSE 0],
     outstanding |-> pending,
     trigger |-> call]

\* Active agents without an action and semaphores that have not reported,
\* in the tables ag / sems with reporter set rep.
Outstanding(ag, sems, rep) ==
    {<<"agent", a>> : a \in {b \in DOMAIN ag : ag[b].active /\ ag[b].requested_action = NONE}}
        \cup {<<"semaphore", s>> : s \in (DOMAIN sems) \ rep}

\* A coordinator that waits for the agents only.
QuorumMutant(count, ag, sems) ==
    count >= Cardinality({a \in DOMAIN ag : ag[a].active})

\* A coordinator that also waits for the inactive agents.
QuorumAllAgents(count, ag, sems) ==
    count = Cardinality(DOMAIN ag) + Cardinality(DOMAIN sems)

\* When counter == |expected_responders| the stepper runs.
Quorum(count, ag, sems) ==
    count = Cardinality({a \in DOMAIN ag : ag[a].active}) + Cardinality(DOMAIN sems)

\* A stepper that clears every signaled flag when it runs.
StepSemaphoresCleared(sems) == [s \in DOMAIN sems |-> FALSE]

\* The semaphore table after the stepper ran: semaphores remain signaled
\* across tick boundaries.
StepSemaphores(sems) == sems

\* The coordinator's check after a handler changed the tables to ag / sems /
\* rep with counter count: run the stepper (tick advance, callback, reset) or
\* just store the new tables.
Coordinate(ag, sems, rep, count, ids, succ) ==
    IF count > 0 /\ Quorum(count, ag, sems)
    THEN /\ time' = time + 1
         /\ step_info' = on_step(ag, ids, time + 1, Outstanding(ag, sems, rep), last_call')
         /\ agents' = ResetAgents(ag)
         /\ semaphores' = StepSemaphores(sems)
         /\ reporters' = {}
         /\ acted_agent_count' = 0
         /\ succeeded' = [a \in DOMAIN ag |-> 0]
    ELSE /\ agents' = ag
         /\ semaphores' = sems
         /\ reporters' = rep
         /\ acted_agent_count' = count
         /\ succeeded' = [a \in DOMAIN ag |-> succ[a]]
         /\ UNCHANGED <<time, step_info>>

\* simulator::move / turn / do_nothing: status of a request of agent id.
request_status(id) ==
    IF id \notin DOMAIN agents THEN "INVALID_AGENT_ID"
    ELSE IF agents[id].requested_action # NONE THEN "AGENT_ALREADY_ACTED"
    ELSE "OK"

\* Python objects handed back by the binding.
Py_True == "True"
Py_False == "False"
Py_None == "None"
NULL == "NULL"

\* A binding that answers True whatever the status.
py_bool_mutant(status) == Py_True

\* PyObject* py_result = ((result == status::OK) ? Py_True : Py_False);
py_bool(status) == IF status = "OK" THEN Py_True ELSE Py_False

\* The requests of agent id answered True so far in this tick, after one more
\* answer.
Answered(id, answer) ==
    IF answer = Py_True /\ id \in DOMAIN succeeded
    THEN [succeeded EXCEPT ![id] = @ + 1] ELSE succeeded

(***************************************************************************)
(* Binding handlers, local mode (py_client_handle == Py_None).             *)
(***************************************************************************)
simulator_add_agent ==
    /\ UNCHANGED nonSimVars
    /\ agent_id_counter <= MaxAgents
    /\ time < MaxTime
    /\ LET id == agent_id_counter
           ag == [a \in DOMAIN agents \cup {id} |->
                    IF a = id THEN [active |-> TRUE, requested_action |-> NONE]
                    ELSE agents[a]]
       IN /\ agent_id_counter' = id + 1
          /\ agent_ids' = Append(agent_ids, id)
          /\ py_result' = "py_agent"
          /\ last_call' = <<"add_agent", id>>
          /\ agents' = ag
          /\ succeeded' = [a \in DOMAIN ag |-> IF a \in DOMAIN succeeded THEN succeeded[a] ELSE 0]
    /\ UNCHANGED <<time, semaphores, reporters, acted_agent_count,
                   semaphore_id_counter, semaphore_ids, step_info>>

\* sim_handle->remove_agent(agent_id), in which the coordinator may run the
\* stepper, returns before the id is taken out of agent_ids (lines 1634-1639).
simulator_remove_agent(id) ==
    /\ UNCHANGED nonSimVars
    /\ time < MaxTime
    /\ last_call' = <<"remove_agent", id>>
    /\ IF id \notin DOMAIN agents
       THEN /\ py_result' = py_bool("INVALID_AGENT_ID")
            /\ UNCHANGED <<time, agents, semaphores, reporters, acted_agent_count,
                           agent_ids, step_info, succeeded>>
       ELSE LET ag == [a \in (DOMAIN agents) \ {id} |-> agents[a]]
                count == IF agents[id].active /\ agents[id].requested_action # NONE
                         THEN acted_agent_count - 1 ELSE acted_agent_count
                index == index_of(agent_ids, id)
                ids == IF index # Len(agent_ids) + 1 THEN array_remove(agent_ids, index)
                       ELSE agent_ids
            IN /\ py_result' = py_bool("OK")
               /\ agent_ids' = ids
               /\ Coordinate(ag, semaphores, reporters, count, agent_ids, succeeded)
    /\ UNCHANGED <<agent_id_counter, semaphore_id_counter, semaphore_ids>>

simulator_add_semaphore ==
    /\ UNCHANGED nonSimVars
    /\ semaphore_id_counter <= MaxSemaphores
    /\ time < MaxTime
    /\ LET id == semaphore_id_counter
       IN /\ semaphore_id_counter' = id + 1
          /\ semaphore_ids' = Append(semaphore_ids, id)
          /\ semaphores' = [s \in DOMAIN semaphores \cup {id} |->
                              IF s = id THEN FALSE ELSE semaphores[s]]
          /\ py_result' = "py_semaphore_id"
          /\ last_call' = <<"add_semaphore", id>>
    /\ UNCHANGED <<time, agents, reporters, acted_agent_count, agent_id_counter,
                   agent_ids, step_info, succeeded>>

simulator_remove_semaphore(id) ==
    /\ UNCHANGED nonSimVars
    /\ time < MaxTime
    /\ last_call' = <<"remove_semaphore", id>>
    /\ IF id \notin DOMAIN semaphores
       THEN /\ py_result' = py_bool("INVALID_SEMAPHORE_ID")
            /\ UNCHANGED <<time, agents, semaphores, reporters, acted_agent_count,
                           semaphore_ids, step_info, succeeded>>
       ELSE LET sems == [s \in (DOMAIN semaphores) \ {id} |-> semaphores[s]]
                count == IF id \in reporters THEN acted_agent_count - 1
                         ELSE acted_agent_count
                index == index_of(semaphore_ids, id)
            IN /\ py_result' = py_bool("OK")
               /\ semaphore_ids' = IF index # Len(semaphore_ids) + 1
                                   THEN array_remove(semaphore_ids, index)
                                   ELSE semaphore_ids
               /\ Coordinate(agents, sems, reporters \ {id}, count, agent_ids, succeeded)
    /\ UNCHANGED <<agent_id_counter, semaphore_id_counter, agent_ids>>

simulator_signal_semaphore(id) ==
    /\ UNCHANGED nonSimVars
    /\ time < MaxTime
    /\ last_call' = <<"signal_semaphore", id>>
    /\ IF id \notin DOMAIN semaphores
       THEN /\ py_result' = py_bool("INVALID_SEMAPHORE_ID")
            /\ UNCHANGED <<time, agents, semaphores, reporters, acted_agent_count,
                           step_info, succeeded>>
       ELSE LET sems == [semaphores EXCEPT ![id] = TRUE]
                count == IF id \in reporters THEN acted_agent_count
                         ELSE acted_agent_count + 1
            IN /\ py_result' = py_bool("OK")
               /\ Coordinate(agents, sems, reporters \cup {id}, count, agent_ids, succeeded)
    /\ UNCHANGED <<agent_id_counter, semaphore_id_counter, agent_ids, semaphore_ids>>

\* simulator_move, simulator_turn and simulator_no_op: the request act of
\* agent id.
simulator_act(id, act) ==
    /\ UNCHANGED nonSimVars
    /\ time < MaxTime
    /\ last_call' = <<"act", id>>
    /\ LET result == request_status(id)
       IN /\ py_result' = py_bool(result)
          /\ IF result = "OK"
             THEN LET ag == [agents EXCEPT ![id].requested_action = act]
                      count == IF agents[id].active THEN acted_agent_count + 1
                               ELSE acted_agent_count
                  IN Coordinate(ag, semaphores, reporters, count, agent_ids,
                                Answered(id, py_bool(result)))
             ELSE /\ UNCHANGED <<time, agents, semaphores, reporters,
                                 acted_agent_count, step_info>>
                  /\ succeeded' = Answered(id, py_bool(result))
    /\ UNCHANGED <<agent_id_counter, semaphore_id_counter, agent_ids, semaphore_ids>>

simulator_set_active(id, active) ==
    /\ UNCHANGED nonSimVars
    /\ time < MaxTime
    /\ last_call' = <<"set_active", id>>
    /\ IF id \notin DOMAIN agents
       THEN /\ py_result' = NULL
            /\ UNCHANGED <<time, agents, semaphores, reporters, acted_agent_count,
                           step_info, succeeded>>
       ELSE LET ag == [agents EXCEPT ![id].active = active]
                acted == agents[id].requested_action # NONE
                count == IF acted /\ agents[id].active /\ ~active THEN acted_agent_count - 1
                         ELSE IF acted /\ ~agents[id].active /\ active THEN acted_agent_count + 1
                         ELSE acted_agent_count
            IN /\ py_result' = Py_None
               /\ Coordinate(ag, semaphores, reporters, count, agent_ids, succeeded)
    /\ UNCHANGED <<agent_id_counter, semaphore_id_counter, agent_ids, semaphore_ids>>

\* simulator::get_semaphores: the (id, signaled) pairs of the table, by id.
get_semaphores(sems) ==
    LET ids == CHOOSE q \in [1..Cardinality(DOMAIN sems) -> DOMAIN sems] :
                   \A i, j \in DOMAIN q : i < j => q[i] < q[j]
    IN [i \in 1..Cardinality(DOMAIN sems) |-> [key |-> ids[i], value |-> sems[ids[i]]]]

\* Py_BuildValue("(KO)", semaphores[i].key, semaphores[i].value ? Py_True : Py_False)
\* for every entry of the array.
build_py_semaphores(array) ==
    [i \in 1..Len(array) |->
        <<array[i].key, IF array[i].value THEN Py_True ELSE Py_False>>]

\* simulator_get_semaphores, local mode: py_result stands for the list
\* build_py_semaphores(get_semaphores(semaphores)).
simulator_get_semaphores ==
    /\ UNCHANGED nonSimVars
    /\ time < MaxTime
    /\ last_call' = <<"get_semaphores", 0>>
    /\ py_result' = "py_semaphores"
    /\ UNCHANGED <<time, agents, semaphores, reporters, acted_agent_count,
                   agent_id_counter, semaphore_id_counter, agent_ids,
                   semaphore_ids, step_info, succeeded>>

InitSim ==
    /\ time = 0
    /\ agents = << >>
    /\ semaphores = << >>
    /\ reporters = {}
    /\ acted_agent_count = 0
    /\ agent_id_counter = 1
    /\ semaphore_id_counter = 1
    /\ agent_ids = << >>
    /\ semaphore_ids = << >>
    /\ py_result = Py_None
    /\ step_info = [time |-> 0, states |-> << >>, outstanding |-> {},
                    trigger |-> <<"new", 0>>]
    /\ succeeded = << >>
    /\ last_call = <<"new", 0>>

NextSim ==
    \/ simulator_add_agent
    \/ \E id \in 1..MaxAgents : simulator_remove_agent(id)
    \/ simulator_add_semaphore
    \/ \E id \in 1..MaxSemaphores : simulator_remove_semaphore(id)
    \/ \E id \in 1..MaxSemaphores : simulator_signal_semaphore(id)
    \/ \E id \in 1..MaxAgents, act \in Actions : simulator_act(id, act)
    \/ \E id \in 1..MaxAgents, active \in BOOLEAN : simulator_set_active(id, active)
    \/ simulator_get_semaphores

(***************************************************************************)
(* The effect of one request on the simulator, as a function of the        *)
(* simulator state: what simulator_act and simulator_signal_semaphore do   *)
(* to the tables, the counter, the tick and the step callback.             *)
(***************************************************************************)
SimState ==
    [time |-> time, agents |-> agents, semaphores |-> semaphores,
     reporters |-> reporters, acted_agent_count |-> acted_agent_count,
     agent_ids |-> agent_ids,
     step_time |-> step_info.time, step_states |-> step_info.states]

\* Coordinate, on a simulator state s.
coordinate(s, ag, sems, rep, count) ==
    IF count > 0 /\ Quorum(count, ag, sems)
    THEN [s EXCEPT !.time = s.time + 1,
                   !.agents = ResetAgents(ag),
                   !.semaphores = StepSemaphores(sems),
                   !.reporters = {},
                   !.acted_agent_count = 0,
                   !.step_time = s.time + 1,
                   !.step_states = on_step(ag, s.agent_ids, s.time + 1, {},
                                           <<"new", 0>>).states]
    ELSE [s EXCEPT !.agents = ag, !.semaphores = sems, !.reporters = rep,
                   !.acted_agent_count = count]

\* A signal that is dropped once an agent has a pending action.
request_signal_mutant(s, id) ==
    IF id \notin DOMAIN s.semaphores
          \/ \E a \in DOMAIN s.agents : s.agents[a].requested_action # NONE
    THEN s
    ELSE coordinate(s, s.agents, [s.semaphores EXCEPT ![id] = TRUE],
                    s.reporters \cup {id},
                    IF id \in s.reporters THEN s.acted_agent_count
                    ELSE s.acted_agent_count + 1)

\* simulator_signal_semaphore on s.
request_signal(s, id) ==
    IF id \notin DOMAIN s.semaphores THEN s
    ELSE coordinate(s, s.agents, [s.semaphores EXCEPT ![id] = TRUE],
                    s.reporters \cup {id},
                    IF id \in s.reporters THEN s.acted_agent_count
                    ELSE s.acted_agent_count + 1)

\* simulator_move / simulator_turn / simulator_no_op on s.
request_act(s, id, act) ==
    IF id \notin DOMAIN s.agents THEN s
    ELSE IF s.agents[id].requested_action # NONE THEN s
    ELSE coordinate(s, [s.agents EXCEPT ![id].requested_action = act],
                    s.semaphores, s.reporters,
                    IF s.agents[id].active THEN s.acted_agent_count + 1
                    ELSE s.acted_agent_count)

\* The requests of one tick: an action of an agent, a signal of a semaphore.
TickRequests ==
    [kind : {"act"}, id : 1..MaxAgents, act : Actions]
        \cup [kind : {"signal"}, id : 1..MaxSemaphores, act : {NONE}]

apply_request(s, r) ==
    IF r.kind = "act" THEN request_act(s, r.id, r.act) ELSE request_signal(s, r.id)

(***************************************************************************)
(* Energy-function registry (energy_functions.h).                          *)
(***************************************************************************)
Kinds == {"intensity", "interaction", "regeneration"}

\* enum class intensity_fns / interaction_fns / regeneration_fns
intensity_fns == [ZERO |-> 0, CONSTANT_ |-> 1, RADIAL_HASH |-> 2]
interaction_fns == [ZERO |-> 0, PIECEWISE_BOX |-> 1, CROSS |-> 2, CROSS_HASH |-> 3,
                    MOORE |-> 4, GAUSSIAN |-> 5, FOUR |-> 6]
regeneration_fns == [ZERO |-> 0, CONSTANT_ |-> 1, CUSTOM |-> 2]

get_intensity_fn(type, num_args) ==
    CASE type = intensity_fns.ZERO ->
            IF num_args # 0 THEN NULL ELSE "zero_intensity_fn"
      [] type = intensity_fns.CONSTANT_ ->
            IF num_args = 0 THEN NULL ELSE "constant_intensity_fn"
      [] type = intensity_fns.RADIAL_HASH ->
            IF num_args # 4 THEN NULL ELSE "radial_hash_intensity_fn"
      [] OTHER -> NULL

\* A registry in which FOUR resolves to the function of MOORE.
get_interaction_fn_mutant(type, num_args) ==
    CASE type = interaction_fns.ZERO ->
            IF num_args # 0 THEN NULL ELSE "zero_interaction_fn"
      [] type = interaction_fns.PIECEWISE_BOX ->
            IF num_args # 4 THEN NULL ELSE "piecewise_box_interaction_fn"
      [] type = interaction_fns.CROSS ->
            IF num_args # 6 THEN NULL ELSE "cross_interaction_fn"
      [] type = interaction_fns.CROSS_HASH ->
            IF num_args # 8 THEN NULL ELSE "cross_hash_interaction_fn"
      [] type = interaction_fns.MOORE ->
            IF num_args # 0 THEN NULL ELSE "moore_interaction_fn"
      [] type = interaction_fns.FOUR ->
            IF num_args # 0 THEN NULL ELSE "moore_interaction_fn"
      [] type = interaction_fns.GAUSSIAN ->
            IF num_args # 2 THEN NULL ELSE "gaussian_interaction_fn"
      [] OTHER -> NULL

get_interaction_fn(type, num_args) ==
    CASE type = interaction_fns.ZERO ->
            IF num_args # 0 THEN NULL ELSE "zero_interaction_fn"
      [] type = interaction_fns.PIECEWISE_BOX ->
            IF num_args # 4 THEN NULL ELSE "piecewise_box_interaction_fn"
      [] type = interaction_fns.CROSS ->
            IF num_args # 6 THEN NULL ELSE "cross_interaction_fn"
      [] type = interaction_fns.CROSS_HASH ->
            IF num_args # 8 THEN NULL ELSE "cross_hash_interaction_fn"
      [] type = interaction_fns.MOORE ->
            IF num_args # 0 THEN NULL ELSE "moore_interaction_fn"
      [] type = interaction_fns.FOUR ->
            IF num_args # 0 THEN NULL ELSE "four_interaction_fn"
      [] type = interaction_fns.GAUSSIAN ->
            IF num_args # 2 THEN NULL ELSE "gaussian_interaction_fn"
      [] OTHER -> NULL

get_regeneration_fn(type, num_args) ==
    CASE type = regeneration_fns.ZERO ->
            IF num_args # 0 THEN NULL ELSE "zero_regeneration_fn"
      [] type = regeneration_fns.CONSTANT_ ->
            IF num_args = 0 THEN NULL ELSE "constant_regeneration_fn"
      [] type = regeneration_fns.CUSTOM ->
            IF num_args = 0 THEN NULL ELSE "custom_regeneration_fn"
      [] OTHER -> NULL

\* get_*_fn(type, args, num_args) of the given kind
get_fn(kind, type, num_args) ==
    CASE kind = "intensity" -> get_intensity_fn(type, num_args)
      [] kind = "interaction" -> get_interaction_fn(type, num_args)
      [] kind = "regeneration" -> get_regeneration_fn(type, num_args)

\* The tag a function is mapped back to: get_*_fn(function).
\* -1: exit(EXIT_FAILURE).
intensity_tag(function) ==
    IF function = "zero_intensity_fn" THEN intensity_fns.ZERO
    ELSE IF function = "constant_intensity_fn" THEN intensity_fns.CONSTANT_
    ELSE IF function = "radial_hash_intensity_fn" THEN intensity_fns.RADIAL_HASH
    ELSE -1

interaction_tag(function) ==
    IF function = "zero_interaction_fn" THEN interaction_fns.ZERO
    ELSE IF function = "piecewise_box_interaction_fn" THEN interaction_fns.PIECEWISE_BOX
    ELSE IF function = "cross_interaction_fn" THEN interaction_fns.CROSS
    ELSE IF function = "cross_hash_interaction_fn" THEN interaction_fns.CROSS_HASH
    ELSE IF function = "moore_interaction_fn" THEN interaction_fns.MOORE
    ELSE IF function = "four_interaction_fn" THEN interaction_fns.FOUR
    ELSE IF function = "gaussian_interaction_fn" THEN interaction_fns.GAUSSIAN
    ELSE -1

regeneration_tag(function) ==
    IF function = "zero_regeneration_fn" THEN regeneration_fns.ZERO
    ELSE IF function = "constant_regeneration_fn" THEN regeneration_fns.CONSTANT_
    ELSE IF function = "custom_regeneration_fn" THEN regeneration_fns.CUSTOM
    ELSE -1

get_tag(kind, function) ==
    CASE kind = "intensity" -> intensity_tag(function)
      [] kind = "interaction" -> interaction_tag(function)
      [] kind = "regeneration" -> regeneration_tag(function)

\* write(function, out): the tag appended to the stream, or failure
write_intensity_fn(function, out) ==
    IF function = "zero_intensity_fn" THEN [ok |-> TRUE, out |-> Append(out, intensity_fns.ZERO)]
    ELSE IF function = "constant_intensity_fn" THEN [ok |-> TRUE, out |-> Append(out, intensity_fns.CONSTANT_)]
    ELSE IF function = "radial_hash_intensity_fn" THEN [ok |-> TRUE, out |-> Append(out, intensity_fns.RADIAL_HASH)]
    ELSE [ok |-> FALSE, out |-> out]

write_interaction_fn(function, out) ==
    IF function = "zero_interaction_fn" THEN [ok |-> TRUE, out |-> Append(out, interaction_fns.ZERO)]
    ELSE IF function = "piecewise_box_interaction_fn" THEN [ok |-> TRUE, out |-> Append(out, interaction_fns.PIECEWISE_BOX)]
    ELSE IF function = "cross_interaction_fn" THEN [ok |-> TRUE, out |-> Append(out, interaction_fns.CROSS)]
    ELSE IF function = "cross_hash_interaction_fn" THEN [ok |-> TRUE, out |-> Append(out, interaction_fns.CROSS_HASH)]
    ELSE IF function = "moore_interaction_fn" THEN [ok |-> TRUE, out |-> Append(out, interaction_fns.MOORE)]
    ELSE IF function = "four_interaction_fn" THEN [ok |-> TRUE, out |-> Append(out, interaction_fns.FOUR)]
    ELSE IF function = "gaussian_interaction_fn" THEN [ok |-> TRUE, out |-> Append(out, interaction_fns.GAUSSIAN)]
    ELSE [ok |-> FALSE, out |-> out]

write_regeneration_fn(function, out) ==
    IF function = "zero_regeneration_fn" THEN [ok |-> TRUE, out |-> Append(out, regeneration_fns.ZERO)]
    ELSE IF function = "constant_regeneration_fn" THEN [ok |-> TRUE, out |-> Append(out, regeneration_fns.CONSTANT_)]
    ELSE IF function = "custom_regeneration_fn" THEN [ok |-> TRUE, out |-> Append(out, regeneration_fns.CUSTOM)]
    ELSE [ok |-> FALSE, out |-> out]

write_fn(kind, function, out) ==
    CASE kind = "intensity" -> write_intensity_fn(function, out)
      [] kind = "interaction" -> write_interaction_fn(function, out)
      [] kind = "regeneration" -> write_regeneration_fn(function, out)

read_intensity_fn(c, function) ==
    CASE c = intensity_fns.ZERO -> [ok |-> TRUE, function |-> "zero_intensity_fn"]
      [] c = intensity_fns.CONSTANT_ -> [ok |-> TRUE, function |-> "constant_intensity_fn"]
      [] c = intensity_fns.RADIAL_HASH -> [ok |-> TRUE, function |-> "radial_hash_intensity_fn"]
      [] OTHER -> [ok |-> FALSE, function |-> function]

read_interaction_fn(c, function) ==
    CASE c = interaction_fns.ZERO -> [ok |-> TRUE, function |-> "zero_interaction_fn"]
      [] c = interaction_fns.PIECEWISE_BOX -> [ok |-> TRUE, function |-> "piecewise_box_interaction_fn"]
      [] c = interaction_fns.CROSS -> [ok |-> TRUE, function |-> "cross_interaction_fn"]
      [] c = interaction_fns.CROSS_HASH -> [ok |-> TRUE, function |-> "cross_hash_interaction_fn"]
      [] c = interaction_fns.MOORE -> [ok |-> TRUE, function |-> "moore_interaction_fn"]
      [] c = interaction_fns.FOUR -> [ok |-> TRUE, function |-> "four_interaction_fn"]
      [] c = interaction_fns.GAUSSIAN -> [ok |-> TRUE, function |-> "gaussian_interaction_fn"]
      [] OTHER -> [ok |-> FALSE, function |-> function]

read_regeneration_fn(c, function) ==
    CASE c = regeneration_fns.ZERO -> [ok |-> TRUE, function |-> "zero_regeneration_fn"]
      [] c = regeneration_fns.CONSTANT_ -> [ok |-> TRUE, function |-> "constant_regeneration_fn"]
      [] c = regeneration_fns.CUSTOM -> [ok |-> TRUE, function |-> "custom_regeneration_fn"]
      [] OTHER -> [ok |-> FALSE, function |-> function]

\* read(function, in): reads the tag in[1]; function keeps its old value when
\* the read fails (no tag on the stream, or an unrecognized one).
read_fn(kind, in, function) ==
    IF in = << >> THEN [ok |-> FALSE, function |-> function]
    ELSE CASE kind = "intensity" -> read_intensity_fn(in[1], function)
           [] kind = "interaction" -> read_interaction_fn(in[1], function)
           [] kind = "regeneration" -> read_regeneration_fn(in[1], function)

\* The tags of the built-ins of a kind, and the argument counts the spec
\* declares for each.
BuiltinTags(kind) ==
    CASE kind = "intensity" -> 0..2
      [] kind = "interaction" -> 0..6
      [] kind = "regeneration" -> 0..2

UNSET == "unset"

\* One state per (kind, tag, num_args) tried; a stream holding a tag nothing
\* wrote stands for a file read back.
InitFns ==
    /\ \E kind \in Kinds, type \in 0..MaxTag, num_args \in 0..MaxNumArgs :
         fns = [kind |-> kind, type |-> type, num_args |-> num_args,
                fn |-> UNSET, back |-> -2, stream |-> << >>,
                loaded |-> [ok |-> FALSE, function |-> UNSET], op |-> "new"]

IdleFns ==
    fns = [kind |-> "intensity", type |-> 0, num_args |-> 0,
           fn |-> UNSET, back |-> -2, stream |-> << >>,
           loaded |-> [ok |-> FALSE, function |-> UNSET], op |-> "new"]

\* new_item.intensity_fn.fn = get_intensity_fn(type, args, num_args), ...
Resolve ==
    /\ UNCHANGED nonFnsVars
    /\ fns.op = "new"
    /\ fns' = [fns EXCEPT !.fn = get_fn(fns.kind, fns.type, fns.num_args), !.op = "resolved"]

\* get_*_fn(function) of a resolved function
MapBack ==
    /\ UNCHANGED nonFnsVars
    /\ fns.op = "resolved"
    /\ fns.fn # NULL
    /\ fns' = [fns EXCEPT !.back = get_tag(fns.kind, fns.fn), !.op = "mapped"]

\* write(function, out) of a resolved function
WriteFn ==
    /\ UNCHANGED nonFnsVars
    /\ fns.op \in {"resolved", "mapped"}
    /\ fns.fn # NULL
    /\ fns' = [fns EXCEPT !.stream = write_fn(fns.kind, fns.fn, fns.stream).out,
                          !.op = "written"]

\* read(function, in) from the stream write left
ReadFn ==
    /\ UNCHANGED nonFnsVars
    /\ fns.op = "written"
    /\ fns' = [fns EXCEPT !.loaded = read_fn(fns.kind, fns.stream, UNSET), !.op = "read"]

\* read(function, in) from a stream holding the raw tag fns.type
ReadRaw ==
    /\ UNCHANGED nonFnsVars
    /\ fns.op = "new"
    /\ fns' = [fns EXCEPT !.stream = <<fns.type>>,
                          !.loaded = read_fn(fns.kind, <<fns.type>>, UNSET),
                          !.op = "read_raw"]

\* Values of float arguments, and what a read past the end of an args array
\* may find there.
Floats == 0..2

zero_regeneration_fn(tick, args) == [value |-> 0, oob |-> FALSE]

constant_regeneration_fn(tick, args) == [value |-> args[1], oob |-> FALSE]

\* return args[tick]: no bound is checked, so a tick past the end of the array
\* reads whatever lies behind it (garbage).
custom_regeneration_fn(tick, args, garbage) ==
    IF tick < Len(args) THEN [value |-> args[tick + 1], oob |-> FALSE]
    ELSE [value |-> garbage, oob |-> TRUE]

call_regeneration_fn(fn, tick, args, garbage) ==
    CASE fn = "zero_regeneration_fn" -> zero_regeneration_fn(tick, args)
      [] fn = "constant_regeneration_fn" -> constant_regeneration_fn(tick, args)
      [] fn = "custom_regeneration_fn" -> custom_regeneration_fn(tick, args, garbage)

is_stationary_regeneration(function) ==
    function = "zero_regeneration_fn" \/ function = "constant_regeneration_fn"

is_time_independent(function) ==
    function = "zero_regeneration_fn" \/ function = "constant_regeneration_fn"

\* gibbs_field_cache::regeneration: the value cached by init_helper at
\* (position(0, 0), time 0) for a stationary, tick-independent function, a
\* direct call otherwise.
cache_regeneration(fn, tick, args, garbage) ==
    IF is_stationary_regeneration(fn) /\ is_time_independent(fn)
    THEN call_regeneration_fn(fn, 0, args, garbage)
    ELSE call_regeneration_fn(fn, tick, args, garbage)

\* The args arrays get_regeneration_fn accepts for a function.
RegenArgs(fn) ==
    IF fn = "zero_regeneration_fn" THEN {<< >>}
    ELSE UNION {[1..k -> Floats] : k \in 1..MaxRegenArgs}

IdleRegen ==
    regen = [fn |-> "zero_regeneration_fn", args |-> << >>, time |-> 0,
             value |-> 0, oob |-> FALSE, calls |-> 0]

\* cache.regeneration(pos, time, item_type) for an item type whose
\* regeneration function is fn with arguments args
Regeneration ==
    /\ UNCHANGED nonRegenVars
    /\ \E fn \in {"zero_regeneration_fn", "constant_regeneration_fn", "custom_regeneration_fn"},
       t \in 0..MaxRegenTime, garbage \in Floats :
         \E args \in RegenArgs(fn) :
            LET r == cache_regeneration(fn, t, args, garbage)
            IN regen' = [fn |-> fn, args |-> args, time |-> t,
                         value |-> r.value, oob |-> r.oob, calls |-> 1]

(***************************************************************************)
(* simulator_save / simulator_load (simulator.cpp).  A file is a sequence  *)
(* of words; a simulator body is one word of Bodies, a server state one    *)
(* word of ServerStates.                                                   *)
(***************************************************************************)
Bodies == {100, 101}
ServerStates == {0, 1}

\* Sequences without repetition over S, of length at most k.
DistinctSeqs(S, k) ==
    UNION {{s \in [1..m -> S] : \A i, j \in 1..m : i # j => s[i] # s[j]} : m \in 0..k}

Simulators ==
    [body : Bodies,
     agent_ids : DistinctSeqs(1..MaxId, MaxOwned),
     semaphore_ids : DistinctSeqs(1..MaxId, MaxOwned),
     server_state : ServerStates]

\* bool result = write(*sim_handle, out) && write(data.agent_ids.length, out)
\*   && write(data.agent_ids.data, ...) && write(data.semaphore_ids.length, out)
\*   && write(data.semaphore_ids.data, ...) && write(data.server.state, out);
save_fields(sim) ==
    <<sim.body>> \o <<Len(sim.agent_ids)>> \o sim.agent_ids
        \o <<Len(sim.semaphore_ids)>> \o sim.semaphore_ids \o <<sim.server_state>>

\* read(*sim, in, data): the simulator body, the first word of the file.
read_body(in) ==
    IF Len(in) >= 1 /\ in[1] \in Bodies
    THEN [ok |-> TRUE, body |-> in[1], rest |-> Tail(in)]
    ELSE [ok |-> FALSE, body |-> 0, rest |-> in]

\* read(count, in) followed by read(data, in, count)
read_array(in) ==
    IF Len(in) >= 1 /\ in[1] >= 0 /\ Len(in) >= 1 + in[1]
    THEN [ok |-> TRUE, data |-> SubSeq(in, 2, 1 + in[1]),
          rest |-> SubSeq(in, 2 + in[1], Len(in))]
    ELSE [ok |-> FALSE, data |-> << >>, rest |-> in]

\* A load that reads the semaphore ids before the agent ids.
read_id_lists_mutant(in) ==
    LET s == read_array(in)
        a == read_array(s.rest)
    IN IF s.ok /\ a.ok /\ Len(a.rest) >= 1
       THEN [ok |-> TRUE, agent_ids |-> a.data, semaphore_ids |-> s.data,
             server_state |-> a.rest[1]]
       ELSE [ok |-> FALSE, agent_ids |-> << >>, semaphore_ids |-> << >>,
             server_state |-> 0]

\* The reads of simulator_load after the body: agent-id count and ids,
\* semaphore-id count and ids, server state.
read_id_lists(in) ==
    LET a == read_array(in)
        s == read_array(a.rest)
    IN IF a.ok /\ s.ok /\ Len(s.rest) >= 1
       THEN [ok |-> TRUE, agent_ids |-> a.data, semaphore_ids |-> s.data,
             server_state |-> s.rest[1]]
       ELSE [ok |-> FALSE, agent_ids |-> << >>, semaphore_ids |-> << >>,
             server_state |-> 0]

NoSimulator == [body |-> 0, agent_ids |-> << >>, semaphore_ids |-> << >>,
                server_state |-> 0]

\* Where a load can be made to fail by its environment; an unreadable file
\* fails it by itself.
LoadFaults == {"none", "malloc_sim", "open_file", "malloc_agent_states", "PyList_New"}

\* What a second fclose of the same FILE* can do: undefined behaviour.
DoubleCloseOutcomes == {"returns", "aborts"}

\* simulator_load(load_filepath, py_callback) on the file contents in, with
\* the fault injected and the outcome ub of a second fclose.
load(in, fault, ub) ==
    LET body == read_body(in)
        lists == read_id_lists(body.rest)
        failed(stage, err, closes) ==
            [ret |-> NULL, err |-> err, stage |-> stage, handle |-> NoSimulator,
             has_handle |-> FALSE, sim_allocated |-> FALSE, fclose_count |-> closes]
        closed_twice(stage) ==
            IF ub = "aborts"
            THEN [ret |-> "abort", err |-> "MemoryError", stage |-> stage,
                  handle |-> NoSimulator, has_handle |-> FALSE, sim_allocated |-> FALSE,
                  fclose_count |-> 2]
            ELSE failed(stage, "MemoryError", 2)
    IN IF fault = "malloc_sim" THEN
            failed("malloc_sim", "MemoryError", 0)
       ELSE IF fault = "open_file" THEN failed("open_file", "OSError", 0)
       ELSE IF ~body.ok THEN failed("read_simulator", "RuntimeError", 1)
       ELSE IF ~lists.ok THEN failed("read_ids_state", "RuntimeError", 1)
       ELSE IF fault = "malloc_agent_states" THEN closed_twice("malloc_agent_states")
       ELSE IF fault = "PyList_New" THEN closed_twice("PyList_New")
       ELSE [ret |-> "tuple", err |-> "none", stage |-> "none",
             handle |-> [body |-> body.body, agent_ids |-> lists.agent_ids,
                         semaphore_ids |-> lists.semaphore_ids,
                         server_state |-> lists.server_state],
             has_handle |-> TRUE, sim_allocated |-> TRUE, fclose_count |-> 1]

NoLoad == [ret |-> UNSET, err |-> "none", stage |-> "none", handle |-> NoSimulator,
           has_handle |-> FALSE, sim_allocated |-> FALSE, fclose_count |-> 0]

InitSnap ==
    \E s \in Simulators :
        snap = [sim |-> s, file |-> << >>, saved |-> UNSET, loaded |-> NoLoad,
                resaved |-> << >>, op |-> "new", save_fopen |-> 0, save_fclose |-> 0]

IdleSnap ==
    snap = [sim |-> NoSimulator, file |-> << >>, saved |-> UNSET, loaded |-> NoLoad,
            resaved |-> << >>, op |-> "new", save_fopen |-> 0, save_fclose |-> 0]

\* fclose(file) at line 1066, reached on every path on which open_file
\* returned a file.
save_fclose_calls(opened) == IF opened THEN 1 ELSE 0

\* simulator_save(sim_handle, save_filepath): every write succeeds, or the
\* writes stop after k words (result False), or the file cannot be opened.
simulator_save(k) ==
    /\ UNCHANGED nonSnapVars
    /\ snap.op = "new"
    /\ k \in 0..Len(save_fields(snap.sim))
    /\ snap' = [snap EXCEPT !.file = SubSeq(save_fields(snap.sim), 1, k),
                            !.saved = IF k = Len(save_fields(snap.sim))
                                      THEN Py_True ELSE Py_False,
                            !.save_fopen = 1,
                            !.save_fclose = save_fclose_calls(TRUE),
                            !.op = "saved"]

\* simulator_save when open_file returns nullptr: Py_False, nothing written.
simulator_save_unopened ==
    /\ UNCHANGED nonSnapVars
    /\ snap.op = "new"
    /\ snap' = [snap EXCEPT !.saved = Py_False,
                            !.save_fopen = 0,
                            !.save_fclose = save_fclose_calls(FALSE),
                            !.op = "unsaved"]

\* simulator_load of the saved file
simulator_load(fault, ub) ==
    /\ UNCHANGED nonSnapVars
    /\ snap.op = "saved"
    /\ snap' = [snap EXCEPT !.loaded = load(snap.file, fault, ub), !.op = "loaded"]

\* simulator_save of the simulator a load returned
simulator_save_loaded ==
    /\ UNCHANGED nonSnapVars
    /\ snap.op = "loaded"
    /\ snap.loaded.has_handle
    /\ snap' = [snap EXCEPT !.resaved = save_fields(snap.loaded.handle),
                            !.save_fopen = 1,
                            !.save_fclose = save_fclose_calls(TRUE),
                            !.op = "resaved"]

NextSnap ==
    \/ \E k \in 0..(2 * MaxOwned + 4) : simulator_save(k)
    \/ simulator_save_unopened
    \/ \E fault \in LoadFaults, ub \in DoubleCloseOutcomes : simulator_load(fault, ub)
    \/ simulator_save_loaded

(***************************************************************************)
(* simulator_agent_states (simulator.cpp): local mode and client mode.     *)
(***************************************************************************)
py_none_item == [py |-> "None", id |-> 0, state |-> 0]

\* build_py_agent(state, config, id)
build_py_agent(state, id) == [py |-> "agent", id |-> id, state |-> state]

\* The state stored for agent id in the agent table.
agent_state(id) == 10 * id

\* simulator::get_agent_states: a pointer per requested id, nullptr (0) for an
\* id that is not in the agent table.
get_agent_states(known, ids) ==
    [i \in 1..Len(ids) |-> IF ids[i] \in known THEN agent_state(ids[i]) ELSE 0]

\* local mode: the loop that fills py_states
local_states(known, ids) ==
    LET agent_states == get_agent_states(known, ids)
    IN [i \in 1..Len(ids) |->
          IF agent_states[i] = 0 THEN py_none_item
          ELSE build_py_agent(agent_states[i], ids[i])]

\* The server's get_agent_states response: ids and states of the known ids,
\* in request order.
server_response(known, ids) ==
    LET found == SelectSeq(ids, LAMBDA a : a \in known)
    IN [ids |-> found, states |-> [k \in 1..Len(found) |-> agent_state(found[k])]]

\* A merge loop that never advances next_index.
RECURSIVE merge_response_mutant(_, _, _, _)
merge_response_mutant(ids, response, i, next_index) ==
    IF i > Len(ids) THEN << >>
    ELSE IF next_index = Len(response.ids) \/ response.ids[next_index + 1] # ids[i]
    THEN <<py_none_item>> \o merge_response_mutant(ids, response, i + 1, next_index)
    ELSE <<build_py_agent(response.states[next_index + 1], ids[i])>>
            \o merge_response_mutant(ids, response, i + 1, next_index)

\* client mode: the loop over the requested ids that walks the response with
\* next_index (0-based as in the code).
RECURSIVE merge_response(_, _, _, _)
merge_response(ids, response, i, next_index) ==
    IF i > Len(ids) THEN << >>
    ELSE IF next_index = Len(response.ids) \/ response.ids[next_index + 1] # ids[i]
    THEN <<py_none_item>> \o merge_response(ids, response, i + 1, next_index)
    ELSE <<build_py_agent(response.states[next_index + 1], ids[i])>>
            \o merge_response(ids, response, i + 1, next_index + 1)

InitQry ==
    \E mode \in {"local", "client"}, known \in SUBSET (1..MaxId) :
        \E ids \in UNION {[1..m -> 1..MaxId] : m \in 0..MaxQuery} :
            qry = [mode |-> mode, known |-> known, ids |-> ids,
                   ret |-> UNSET, states |-> << >>, op |-> "new"]

IdleQry ==
    qry = [mode |-> "local", known |-> {}, ids |-> << >>,
           ret |-> UNSET, states |-> << >>, op |-> "new"]

\* simulator_agent_states(sim_handle, client_handle, agent_ids); in client
\* mode the connection may be lost (NULL) or the server may answer with a
\* status other than OK (None).
simulator_agent_states(client_running, response_status) ==
    /\ UNCHANGED nonQryVars
    /\ qry.op = "new"
    /\ IF qry.mode = "local"
       THEN /\ client_running /\ response_status = "OK"
            /\ qry' = [qry EXCEPT !.ret = "list",
                                  !.states = local_states(qry.known, qry.ids),
                                  !.op = "done"]
       ELSE IF ~client_running
       THEN /\ response_status = "OK"
            /\ qry' = [qry EXCEPT !.ret = NULL, !.op = "done"]
       ELSE IF response_status # "OK"
       THEN qry' = [qry EXCEPT !.ret = Py_None, !.op = "done"]
       ELSE qry' = [qry EXCEPT !.ret = "list",
                               !.states = merge_response(qry.ids,
                                              server_response(qry.known, qry.ids), 1, 0),
                               !.op = "done"]

NextQry ==
    \E client_running \in BOOLEAN, response_status \in {"OK", "SERVER_ERROR"} :
        simulator_agent_states(client_running, response_status)

(***************************************************************************)
(* gibbs_field::sample, MH_SAMPLING (gibbs_field.h).  Positions are pairs  *)
(* <<x, y>>; floats are integers counting hundredths (log values rounded). *)
(***************************************************************************)
n == 2                  \* gibbs_field::n, the patch size
item_type_count == 2    \* gibbs_field_cache::item_type_count

two_n == 2 * n
four_n == 4 * n

\* The item types of the configuration: intensity and interaction functions
\* with their args (item_types[i].interaction_fns[j]).
item_types ==
    << [intensity_fn |-> [fn |-> "constant_intensity_fn", args |-> <<-50>>],
        interaction_fns |->
            << [fn |-> "piecewise_box_interaction_fn", args |-> <<2, 5, -300, 50>>],
               [fn |-> "zero_interaction_fn", args |-> << >>] >>],
       [intensity_fn |-> [fn |-> "zero_intensity_fn", args |-> << >>],
        interaction_fns |->
            << [fn |-> "cross_interaction_fn", args |-> <<1, 2, -100, 20, -50, 10>>],
               [fn |-> "four_interaction_fn", args |-> << >>] >>] >>

abs(v) == IF v < 0 THEN -v ELSE v
max(a, b) == IF a > b THEN a ELSE b
squared_length(p) == p[1] * p[1] + p[2] * p[2]

zero_intensity_fn(pos, args) == 0
constant_intensity_fn(pos, args) == args[1]

zero_interaction_fn(pos1, pos2, args) == 0

piecewise_box_interaction_fn(pos1, pos2, args) ==
    LET sq == squared_length(<<pos1[1] - pos2[1], pos1[2] - pos2[2]>>)
    IN IF sq < args[1] THEN args[3]
       ELSE IF sq < args[2] THEN args[4]
       ELSE 0

cross_interaction_fn(pos1, pos2, args) ==
    LET dx == pos1[1] - pos2[1]
        dy == pos1[2] - pos2[2]
        dist == max(abs(dx), abs(dy))
    IN IF dist <= args[1] THEN (IF dx = 0 \/ dy = 0 THEN args[3] ELSE args[5])
       ELSE IF dist <= args[2] THEN (IF dx = 0 \/ dy = 0 THEN args[4] ELSE args[6])
       ELSE 0

\* exp(-k / 2) in ten-thousandths, for k = 0, 1, ...; 0 from k = 20 on
exp_minus_half(k) ==
    IF k >= 20 THEN 0
    ELSE <<10000, 6065, 3679, 2231, 1353, 821, 498, 302, 183, 111,
           67, 41, 25, 15, 9, 6, 3, 2, 1, 1>>[k + 1]

\* args[0] = 1: the exponent is -(diff.x^2 + diff.y^2) / 2
gaussian_interaction_fn(pos1, pos2, args) ==
    LET dx == pos1[1] - pos2[1]
        dy == pos1[2] - pos2[2]
        dist == exp_minus_half((dx * dx + dy * dy) \div (args[1] * args[1]))
    IN (args[2] * dist) \div 10000

\* hash_function((uint32_t) x, 0, 2) in hundredths, for x = -8 .. 10
hash_function(x) ==
    <<43, 43, 6, 6, 72, 72, 74, 74, 0, 0, 19, 19, 40, 40, 87, 87, 80, 80, 14>>[x + 9]

\* args[0] = 2 is the scale; args[1], args[3] and the band d are hundredths,
\* args[2] is a plain factor.
cross_hash_interaction_fn(pos1, pos2, args) ==
    LET scale == args[1]
        x == hash_function(pos1[1])
        x_next == hash_function(pos1[1] + scale)
        t_x == (100 * (pos1[1] % scale)) \div scale
        d == args[3] * ((x * (100 - t_x) + x_next * t_x) \div 100) + args[2]
        D == d + args[4]
        dx == pos1[1] - pos2[1]
        dy == pos1[2] - pos2[2]
        dist == max(abs(dx), abs(dy))
    IN IF 100 * dist <= d THEN (IF dx = 0 \/ dy = 0 THEN args[5] ELSE args[7])
       ELSE IF 100 * dist <= D THEN (IF dx = 0 \/ dy = 0 THEN args[6] ELSE args[8])
       ELSE 0

moore_interaction_fn(pos1, pos2, args) ==
    IF abs(pos1[1] - pos2[1]) < 2 /\ abs(pos1[2] - pos2[2]) < 2 THEN 100 ELSE -20000

four_interaction_fn(pos1, pos2, args) ==
    IF abs(pos1[1] - pos2[1]) < 1 /\ abs(pos1[2] - pos2[2]) < 2 THEN 100
    ELSE IF abs(pos1[2] - pos2[2]) < 1 /\ abs(pos1[1] - pos2[1]) < 2 THEN 100
    ELSE -20000

call_intensity_fn(f, pos) ==
    CASE f.fn = "zero_intensity_fn" -> zero_intensity_fn(pos, f.args)
      [] f.fn = "constant_intensity_fn" -> constant_intensity_fn(pos, f.args)

call_interaction_fn(f, pos1, pos2) ==
    CASE f.fn = "zero_interaction_fn" -> zero_interaction_fn(pos1, pos2, f.args)
      [] f.fn = "piecewise_box_interaction_fn" -> piecewise_box_interaction_fn(pos1, pos2, f.args)
      [] f.fn = "cross_interaction_fn" -> cross_interaction_fn(pos1, pos2, f.args)
      [] f.fn = "cross_hash_interaction_fn" -> cross_hash_interaction_fn(pos1, pos2, f.args)
      [] f.fn = "gaussian_interaction_fn" -> gaussian_interaction_fn(pos1, pos2, f.args)
      [] f.fn = "moore_interaction_fn" -> moore_interaction_fn(pos1, pos2, f.args)
      [] f.fn = "four_interaction_fn" -> four_interaction_fn(pos1, pos2, f.args)

is_constant(function) == function = "zero_interaction_fn"

is_stationary_intensity(function) ==
    function = "zero_intensity_fn" \/ function = "constant_intensity_fn"

is_stationary_interaction(function) ==
    \/ function = "zero_interaction_fn"
    \/ function = "piecewise_box_interaction_fn"
    \/ function = "cross_interaction_fn"
    \/ function = "moore_interaction_fn"

\* init_helper: intensities[i], the intensity of a stationary function at
\* position(0, 0)
intensities(i) == call_intensity_fn(item_types[i + 1].intensity_fn, <<0, 0>>)

\* A table filled from the origin instead of position(two_n, two_n).
interaction_table_mutant(interaction, x, y) ==
    IF x = two_n /\ y = two_n THEN 0
    ELSE call_interaction_fn(interaction, <<0, 0>>, <<x, y>>)

\* init_helper: the entry [x*four_n + y] of the table of a stationary,
\* non-constant interaction function.
interaction_table(interaction, x, y) ==
    IF x = two_n /\ y = two_n THEN 0
    ELSE call_interaction_fn(interaction, <<two_n, two_n>>, <<x, y>>)

\* init_helper: interactions[i*item_type_count + j][x*four_n + y]
interactions(i, j, x, y) ==
    interaction_table(item_types[i + 1].interaction_fns[j + 1], x, y)

\* gibbs_field_cache::intensity
cache_intensity(pos, item_type) ==
    IF is_stationary_intensity(item_types[item_type + 1].intensity_fn.fn)
    THEN intensities(item_type)
    ELSE call_intensity_fn(item_types[item_type + 1].intensity_fn, pos)

\* An index shifted by n instead of 2n.
table_index_mutant(first_position, second_position) ==
    <<first_position[1] - second_position[1] + n,
      first_position[2] - second_position[2] + n>>

\* position diff = first_position - second_position + position(two_n, two_n);
table_index(first_position, second_position) ==
    <<first_position[1] - second_position[1] + two_n,
      first_position[2] - second_position[2] + two_n>>

\* gibbs_field_cache::interaction, for the interaction function of the pair
\* of item types.
cached_interaction(interaction, first_position, second_position) ==
    LET diff == table_index(first_position, second_position)
    IN IF is_constant(interaction.fn) \/ ~is_stationary_interaction(interaction.fn)
       THEN IF first_position = second_position THEN 0
            ELSE call_interaction_fn(interaction, first_position, second_position)
       ELSE IF diff[1] < 0 \/ diff[1] >= four_n \/ diff[2] < 0 \/ diff[2] >= four_n
            THEN 0
            ELSE interaction_table(interaction, diff[1], diff[2])

\* gibbs_field_cache::interaction
cache_interaction(first_position, second_position, first_item_type, second_item_type) ==
    cached_interaction(item_types[first_item_type + 1].interaction_fns[second_item_type + 1],
                       first_position, second_position)

\* log_cache::get(k) = log(k), in hundredths
logarithm(k) == <<0, 69, 110, 139, 161, 179, 195, 208>>[k]

LOG_ITEM_TYPE_COUNT == logarithm(item_type_count)
LOG_N_SQUARED == 2 * logarithm(n)

\* log((float) rng() / rng.max()) for the draws 0, 0.1, 0.5, 0.9 and 1; the
\* logarithm of 0 is below every acceptance value.
LogRandoms == {-1000000, -230, -69, -11, 0}

\* The batch handed to the sampler: two patches, and a fixed patch above the
\* second one that is a neighbor but is not sampled.
patch_positions == << <<-1, 0>>, <<0, 0>> >>
patch_count == Len(patch_positions)
world_positions == patch_positions \o << <<0, 1>> >>
FixedItems == << [item_type |-> 0, location |-> <<0, 2>>, creation_time |-> 0,
                  deletion_time |-> 0] >>

\* The patches of the world among the given positions, in that order.
PatchesAt(positions) ==
    SelectSeq(positions, LAMBDA q : q \in Range(world_positions))

PatchIndex(pos) == CHOOSE k \in 1..Len(world_positions) : world_positions[k] = pos

\* patch_neighborhood of the patch at pos: per quadrant the patch itself
\* (index 0) and the existing patches that touch the quadrant.
neighborhoods(pos) ==
    LET px == pos[1]
        py == pos[2]
        ids(positions) == [k \in 1..Len(positions) |-> PatchIndex(positions[k])]
    IN [bottom_left |-> ids(<<pos>> \o PatchesAt(<< <<px - 1, py>>, <<px, py - 1>>, <<px - 1, py - 1>> >>)),
        top_left |-> ids(<<pos>> \o PatchesAt(<< <<px - 1, py>>, <<px, py + 1>>, <<px - 1, py + 1>> >>)),
        bottom_right |-> ids(<<pos>> \o PatchesAt(<< <<px + 1, py>>, <<px, py - 1>>, <<px + 1, py - 1>> >>)),
        top_right |-> ids(<<pos>> \o PatchesAt(<< <<px + 1, py>>, <<px, py + 1>>, <<px + 1, py + 1>> >>))]

\* const position patch_position_offset = patch_positions[i] * n;
patch_position_offset(i) == <<patch_positions[i][1] * n, patch_positions[i][2] * n>>

\* The quadrant neighborhood of a position of patch i (the two nested ifs on
\* position - patch_position_offset < n / 2).
quadrant_neighborhood(i, position) ==
    LET offset == patch_position_offset(i)
        nb == neighborhoods(patch_positions[i])
    IN IF position[1] - offset[1] < n \div 2
       THEN (IF position[2] - offset[2] < n \div 2 THEN nb.bottom_left ELSE nb.top_left)
       ELSE (IF position[2] - offset[2] < n \div 2 THEN nb.bottom_right ELSE nb.top_right)

\* The items of the patches of a neighborhood, in the order the two nested
\* loops (j over the patches, m over a patch's items) visit them.
RECURSIVE neighborhood_items(_, _)
neighborhood_items(ps, nb) ==
    IF nb = << >> THEN << >> ELSE ps[Head(nb)] \o neighborhood_items(ps, Tail(nb))

\* A scan that skips the first visited item.
new_position_occupied_mutant(items, new_position) ==
    \E m \in 2..Len(items) : items[m].location = new_position

\* new_position_occupied: some visited item lies at new_position
new_position_occupied(items, new_position) ==
    \E m \in 1..Len(items) : items[m].location = new_position

\* The sum over the visited items of interaction(position, item) +
\* interaction(item, position).
RECURSIVE sum_interactions(_, _, _)
sum_interactions(items, position, item_type) ==
    IF items = << >> THEN 0
    ELSE cache_interaction(position, Head(items).location, item_type, Head(items).item_type)
            + cache_interaction(Head(items).location, position, Head(items).item_type, item_type)
            + sum_interactions(Tail(items), position, item_type)

\* A birth value that adds the log probability of the forward proposal.
birth_log_acceptance_mutant(items, current, new_position, item_type) ==
    sum_interactions(items, new_position, item_type)
        + cache_intensity(new_position, item_type)
        + (-logarithm(Len(current) + 1))
        + (-LOG_ITEM_TYPE_COUNT - LOG_N_SQUARED)

\* log_acceptance_probability of the birth of item_type at new_position
birth_log_acceptance(items, current, new_position, item_type) ==
    sum_interactions(items, new_position, item_type)
        + cache_intensity(new_position, item_type)
        + (-logarithm(Len(current) + 1))
        - (-LOG_ITEM_TYPE_COUNT - LOG_N_SQUARED)

\* A death value that adds the intensity.
death_log_acceptance_mutant(items, current, old_position, old_item_type) ==
    (-sum_interactions(items, old_position, old_item_type))
        + cache_intensity(old_position, old_item_type)
        + (-LOG_ITEM_TYPE_COUNT - LOG_N_SQUARED)
        - (-logarithm(Len(current)))

\* log_acceptance_probability of the death of the item at old_position
death_log_acceptance(items, current, old_position, old_item_type) ==
    (-sum_interactions(items, old_position, old_item_type))
        - cache_intensity(old_position, old_item_type)
        + (-LOG_ITEM_TYPE_COUNT - LOG_N_SQUARED)
        - (-logarithm(Len(current)))

\* The last patch of the top right neighborhood taken as the current one.
current_patch_mutant(i) ==
    LET nb == neighborhoods(patch_positions[i]).top_right IN nb[Len(nb)]

\* patch_type& current = *neighborhood.top_left_neighborhood[0];
current_patch(i) == neighborhoods(patch_positions[i]).top_left[1]

BatchItemCount ==
    LET RECURSIVE count(_)
        count(k) == IF k = 0 THEN 0 ELSE Len(patches[PatchIndex(patch_positions[k])]) + count(k - 1)
    IN count(patch_count)

\* current.items.length of every patch of the batch
ItemCounts == [k \in 1..patch_count |-> Len(patches[current_patch(k)])]

\* Values rng() returns.
RngDraws == {2, 5}

NoProposal ==
    [kind |-> "none", patch |-> 0, position |-> <<0, 0>>, item_type |-> 0,
     item_index |-> 0, count |-> 0, log_random |-> 0, log_acceptance |-> 0,
     accepted |-> FALSE]

\* A loop that leaves out every second patch.
next_i_mutant(i) == i + 2

\* for (unsigned int i = 0; i < patch_count; i++)
next_i(i) == i + 1

\* A cell drawn from (n + 1) x (n + 1) cells.
birth_cell_mutant(x_draw, y_draw) == <<x_draw % (n + 1), y_draw % (n + 1)>>

\* position(rng() % n, rng() % n)
birth_cell(x_draw, y_draw) == <<x_draw % n, y_draw % n>>

\* current.items.add({ item_type, new_position, 0, 0 })
new_item(item_type, new_position) ==
    [item_type |-> item_type, location |-> new_position,
     creation_time |-> 0, deletion_time |-> 0]

\* An index drawn from length + 1 slots.
death_item_index_mutant(draw, length) == draw % (length + 1)

\* unsigned int item_index = rng() % current.items.length;
death_item_index(draw, length) == draw % length

\* What a read of current.items[item_index] past the length may yield.
GarbageItems ==
    { [item_type |-> 0, location |-> <<0, 0>>, creation_time |-> 0, deletion_time |-> 0],
      [item_type |-> 1, location |-> <<-1, 1>>, creation_time |-> 0, deletion_time |-> 0] }

\* current.items[item_index]
item_at(items, item_index, garbage) ==
    IF item_index < Len(items) THEN items[item_index + 1] ELSE garbage

\* An accepted death that keeps the item and stamps it deleted.
accept_death_mutant(items, item_index) ==
    [k \in 1..Len(items) |->
        IF k = item_index + 1 THEN [items[k] EXCEPT !.deletion_time = 1] ELSE items[k]]

\* current.items.remove(item_index)
accept_death(items, item_index) == array_remove(items, item_index + 1)

InitField ==
    /\ patches = [k \in 1..Len(world_positions) |-> IF k > patch_count THEN FixedItems ELSE << >>]
    /\ patch_i = 1
    /\ proposal = NoProposal
    /\ sweep = [pc |-> "idle", visited |-> << >>, start |-> [k \in 1..patch_count |-> 0]]

\* sample(rng) is called: the loop starts at the first patch.
sample_call ==
    /\ UNCHANGED nonFieldVars
    /\ sweep.pc = "idle"
    /\ sweep' = [pc |-> "loop", visited |-> << >>, start |-> ItemCounts]
    /\ patch_i' = 1
    /\ proposal' = NoProposal
    /\ UNCHANGED patches

\* The end of one iteration of the loop: i++ and the test i < patch_count.
end_iteration ==
    /\ patch_i' = next_i(patch_i)
    /\ sweep' = [sweep EXCEPT !.pc = IF next_i(patch_i) > patch_count THEN "idle" ELSE "loop",
                              !.visited = Append(@, patch_i)]

\* One iteration of the loop of sample with rng() % 2 == 0: the birth of
\* an item type at a cell of the patch, accepted on the draw log_random.
sample_birth(type_draw, x_draw, y_draw, log_random) ==
    /\ UNCHANGED nonFieldVars
    /\ sweep.pc = "loop"
    /\ BatchItemCount < MaxItems
    /\ LET offset == patch_position_offset(patch_i)
           item_type == type_draw % item_type_count
           cell == birth_cell(x_draw, y_draw)
           new_position == <<offset[1] + cell[1], offset[2] + cell[2]>>
           current == current_patch(patch_i)
           items == neighborhood_items(patches, quadrant_neighborhood(patch_i, new_position))
           occupied == new_position_occupied(items, new_position)
           log_acceptance == birth_log_acceptance(items, patches[current],
                                                  new_position, item_type)
           accept == ~occupied /\ log_random < log_acceptance
       IN /\ patches' = IF accept
                        THEN [patches EXCEPT ![current] =
                                Append(@, new_item(item_type, new_position))]
                        ELSE patches
          /\ proposal' = [kind |-> "birth", patch |-> patch_i, position |-> new_position,
                          item_type |-> item_type, item_index |-> 0,
                          count |-> Len(patches[current]),
                          log_random |-> IF occupied THEN 0 ELSE log_random,
                          log_acceptance |-> IF occupied THEN 0 ELSE log_acceptance,
                          accepted |-> accept]
    /\ end_iteration

\* One iteration with rng() % 2 == 1 on a patch that holds items: the death
\* of the item at the drawn index.
sample_death(index_draw, log_random, garbage) ==
    /\ UNCHANGED nonFieldVars
    /\ sweep.pc = "loop"
    /\ LET current == current_patch(patch_i)
       IN /\ Len(patches[current]) > 0
          /\ LET item_index == death_item_index(index_draw, Len(patches[current]))
                 old == item_at(patches[current], item_index, garbage)
                 items == neighborhood_items(patches,
                              quadrant_neighborhood(patch_i, old.location))
                 log_acceptance == death_log_acceptance(items, patches[current],
                                                        old.location, old.item_type)
                 accept == log_random < log_acceptance
             IN /\ patches' = IF accept
                              THEN [patches EXCEPT ![current] = accept_death(@, item_index)]
                              ELSE patches
                /\ proposal' = [kind |-> "death", patch |-> patch_i,
                                position |-> old.location, item_type |-> old.item_type,
                                item_index |-> item_index,
                                count |-> Len(patches[current]),
                                log_random |-> log_random,
                                log_acceptance |-> log_acceptance,
                                accepted |-> accept]
    /\ end_iteration

\* One iteration with rng() % 2 == 1 on an empty patch: no proposal.
sample_skip ==
    /\ UNCHANGED nonFieldVars
    /\ sweep.pc = "loop"
    /\ Len(patches[current_patch(patch_i)]) = 0
    /\ proposal' = [NoProposal EXCEPT !.kind = "skip", !.patch = patch_i]
    /\ end_iteration
    /\ UNCHANGED patches

\* One iteration of the loop, whatever rng() returns.
sample_iteration ==
    \/ \E type_draw \in RngDraws, x_draw \in RngDraws, y_draw \in RngDraws,
          log_random \in LogRandoms : sample_birth(type_draw, x_draw, y_draw, log_random)
    \/ \E index_draw \in RngDraws, log_random \in LogRandoms, garbage \in GarbageItems :
          sample_death(index_draw, log_random, garbage)
    \/ sample_skip

NextField == sample_call \/ sample_iteration

IdleField ==
    /\ patches = << >>
    /\ patch_i = 1
    /\ proposal = NoProposal
    /\ sweep = [pc |-> "idle", visited |-> << >>, start |-> << >>]

(***************************************************************************)
(* Binding handlers, client mode (py_client_handle != Py_None).  The       *)
(* Python threads of one process share one client<py_client_data>; its     *)
(* response listener thread runs the on_* callbacks.  A thread holds the   *)
(* global interpreter lock from the start of a call until wait_for_server  *)
(* releases it, so the part of a call before the wait is one step.         *)
(***************************************************************************)
Threads == 1..MaxThreads
Requests == 1..MaxRequests
NoRequest == 0
NoAnswer == "NONE"
ClientStatuses == {"OK", "INVALID_AGENT_ID", "AGENT_ALREADY_ACTED"}
ActCalls == {"move", "turn", "no_op"}

\* check_response: the message handed to PyErr_SetString, "" in the cases
\* that set none (status::OK and the default case).
check_response(response, prefix) ==
    IF response = "INVALID_AGENT_ID" THEN <<prefix, "Invalid agent ID.">>
    ELSE << >>

\* on_move, on_turn, on_do_nothing, on_set_active: the same four statements.
on_response(c, request, response, prefix) ==
    [c EXCEPT !.listener_error = check_response(response, prefix),
              !.waiting_for_server = FALSE,
              !.server_response = response,
              !.answers = [@ EXCEPT ![request] = response],
              !.sent = Tail(@)]

IdleThread == [pc |-> "idle", call |-> "none", request |-> NoRequest, result |-> NULL]

\* init(py_client_data&) sets neither server_response nor waiting_for_server:
\* both start with whatever the allocation held.
InitCli ==
    \E response \in ClientStatuses, waiting \in BOOLEAN :
        cli = [client_running |-> TRUE,
               waiting_for_server |-> waiting,
               server_response |-> response,
               listener_error |-> << >>,
               sent |-> << >>,
               answers |-> [r \in Requests |-> NoAnswer],
               request_count |-> 0,
               threads |-> [t \in Threads |-> IdleThread]]

IdleCli ==
    cli = [client_running |-> FALSE,
           waiting_for_server |-> FALSE,
           server_response |-> "OK",
           listener_error |-> << >>,
           sent |-> << >>,
           answers |-> [r \in Requests |-> NoAnswer],
           request_count |-> 0,
           threads |-> [t \in Threads |-> IdleThread]]

\* The client branch of a binding call up to its wait: the client_running
\* test, waiting_for_server = true, send_*.
client_request(t, call, send_ok) ==
    /\ cli.threads[t].pc # "waiting"
    /\ cli.request_count < MaxRequests
    /\ IF ~cli.client_running
       THEN cli' = [cli EXCEPT !.threads[t] =
                        [pc |-> "returned", call |-> call,
                         request |-> NoRequest, result |-> NULL]]
       ELSE IF ~send_ok
       THEN cli' = [cli EXCEPT !.waiting_for_server = TRUE,
                               !.threads[t] =
                                   [pc |-> "returned", call |-> call,
                                    request |-> NoRequest, result |-> NULL]]
       ELSE cli' = [cli EXCEPT !.waiting_for_server = TRUE,
                               !.request_count = @ + 1,
                               !.sent = Append(@, [request |-> cli.request_count + 1,
                                                   call |-> call]),
                               !.threads[t] =
                                   [pc |-> "waiting", call |-> call,
                                    request |-> cli.request_count + 1,
                                    result |-> NULL]]
    /\ UNCHANGED nonCliVars

client_move(t, send_ok) == client_request(t, "move", send_ok)
client_turn(t, send_ok) == client_request(t, "turn", send_ok)
client_no_op(t, send_ok) == client_request(t, "no_op", send_ok)
client_set_active(t, send_ok) == client_request(t, "set_active", send_ok)

\* What a call returns once its wait is over.
client_result(call, response) ==
    IF call = "set_active" THEN Py_None ELSE py_bool(response)

\* wait_for_server returns when waiting_for_server or client_running is false;
\* the call then builds its result from server_response.
wait_for_server(t) ==
    /\ cli.threads[t].pc = "waiting"
    /\ ~(cli.waiting_for_server /\ cli.client_running)
    /\ cli' = [cli EXCEPT !.threads[t].pc = "returned",
                          !.threads[t].result =
                              client_result(cli.threads[t].call, cli.server_response)]
    /\ UNCHANGED nonCliVars

\* The listener thread receives the server's answer to the oldest request.
client_callback(response) ==
    /\ cli.client_running
    /\ cli.sent # << >>
    /\ cli' = on_response(cli, Head(cli.sent).request, response, Head(cli.sent).call)
    /\ UNCHANGED nonCliVars

on_lost_connection ==
    /\ cli.client_running
    /\ cli' = [cli EXCEPT !.client_running = FALSE, !.sent = << >>]
    /\ UNCHANGED nonCliVars

NextCli ==
    \/ \E t \in Threads, send_ok \in BOOLEAN : client_move(t, send_ok)
    \/ \E t \in Threads, send_ok \in BOOLEAN : client_turn(t, send_ok)
    \/ \E t \in Threads, send_ok \in BOOLEAN : client_no_op(t, send_ok)
    \/ \E t \in Threads, send_ok \in BOOLEAN : client_set_active(t, send_ok)
    \/ \E t \in Threads : wait_for_server(t)
    \/ \E response \in ClientStatuses : client_callback(response)
    \/ on_lost_connection

(***************************************************************************)
(* Client permissions: simulator_get_permissions and                       *)
(* simulator_set_permissions of the server handle, for one client id.      *)
(***************************************************************************)
PermissionNames ==
    <<"add_agent", "remove_agent", "remove_client", "set_active", "get_map",
      "get_agent_ids", "get_agent_states", "manage_semaphores", "get_semaphores">>

\* struct permissions: one bool per name.
Permissions == [Range(PermissionNames) -> BOOLEAN]

\* A Python Permissions object: the attribute values, parallel to
\* PermissionNames; Py_None stands for any value that is not a bool.
PyPermissions == [1..Len(PermissionNames) -> {Py_True, Py_False, Py_None}]

\* parse_permission: the bool it stores and what it returns.
parse_permission(py_permission) ==
    [permission |-> py_permission = Py_True,
     success |-> py_permission \in {Py_True, Py_False}]

\* The format string of simulator_get_permissions, without its parentheses.
get_permissions_format == <<"O", "O", "O", "O", "O", "O", "O", "O">>

\* Py_BuildValue of a parenthesised format: one item per format unit, taken
\* from the arguments in order; arguments beyond the format are not read.
Py_BuildValue(format, arguments) ==
    [i \in 1..Len(format) |-> arguments[i]]

\* The arguments simulator_get_permissions hands to Py_BuildValue.
permission_arguments(perms) ==
    [i \in 1..Len(PermissionNames) |->
        IF perms[PermissionNames[i]] THEN Py_True ELSE Py_False]

\* The permissions a client starts with are those given to start_server.
InitPerm ==
    \E granted \in BOOLEAN :
        perm = [server |-> [name \in Range(PermissionNames) |-> granted],
                op |-> "new", ret |-> Py_None, items |-> << >>, given |-> << >>,
                calls |-> 0]

IdlePerm ==
    perm = [server |-> [name \in Range(PermissionNames) |-> FALSE], op |-> "new",
            ret |-> Py_None, items |-> << >>, given |-> << >>, calls |-> 0]

simulator_get_permissions ==
    /\ perm.calls < MaxPermCalls
    /\ perm' = [perm EXCEPT !.op = "get_permissions",
                            !.calls = @ + 1,
                            !.ret = "tuple",
                            !.items = Py_BuildValue(get_permissions_format,
                                                    permission_arguments(perm.server))]
    /\ UNCHANGED nonPermVars

simulator_set_permissions(py_permissions) ==
    LET parsed == [i \in 1..Len(PermissionNames) |-> parse_permission(py_permissions[i])]
        success == \A i \in 1..Len(PermissionNames) : parsed[i].success
        perms == [name \in Range(PermissionNames) |->
                     parsed[index_of(PermissionNames, name)].permission]
    IN /\ perm.calls < MaxPermCalls
       /\ perm' = IF ~success
                  THEN [perm EXCEPT !.op = "set_permissions", !.ret = NULL,
                                    !.items = << >>, !.given = py_permissions,
                                    !.calls = @ + 1]
                  ELSE [perm EXCEPT !.server = perms, !.op = "set_permissions",
                                    !.ret = Py_None, !.items = << >>,
                                    !.given = py_permissions, !.calls = @ + 1]
       /\ UNCHANGED nonPermVars

\* The Permissions objects tried: every all-bool object, and the all-True
\* object with one attribute that is not a bool.
PyPermissionsTried ==
    {[i \in 1..Len(PermissionNames) |-> IF b[i] THEN Py_True ELSE Py_False] :
        b \in [1..Len(PermissionNames) -> BOOLEAN]}
    \cup {[i \in 1..Len(PermissionNames) |-> IF i = k THEN Py_None ELSE Py_True] :
             k \in 1..Len(PermissionNames)}

NextPerm ==
    \/ simulator_get_permissions
    \/ \E py_permissions \in PyPermissionsTried : simulator_set_permissions(py_permissions)

(***************************************************************************)
(* simulator_reconnect_client (simulator.cpp): the lists built from the    *)
(* agent ids, agent states and semaphore ids the server answers with.      *)
(***************************************************************************)
py_null_item == [py |-> "NULL", id |-> 0, state |-> 0]

\* PyLong_FromUnsignedLongLong(semaphore_ids[i])
PyLong_FromUnsignedLongLong(value) == [py |-> "int", id |-> value, state |-> 0]

\* PyList_New(len): a list of len empty slots.
PyList_New(len) == [i \in 1..len |-> py_null_item]

\* PyList_SetItem(list, index, item), index counted from 0: an index outside
\* the list leaves the list alone and sets IndexError.
PyList_SetItem(list, index, item) ==
    IF index < Len(list)
    THEN [list |-> [list EXCEPT ![index + 1] = item], err |-> "none"]
    ELSE [list |-> list, err |-> "IndexError"]

\* for (i = 0; i < agent_count; i++)
\*     PyList_SetItem(py_states, i, build_py_agent(agent_states[i], config, agent_ids[i]));
RECURSIVE fill_states(_, _, _)
fill_states(py_states, ids, i) ==
    IF i >= Len(ids) THEN py_states
    ELSE fill_states(
             PyList_SetItem(py_states, i,
                 build_py_agent(agent_state(ids[i + 1]), ids[i + 1])).list,
             ids, i + 1)

\* for (i = 0; i < semaphore_count; i++)
\*     PyList_SetItem(py_states, i, PyLong_FromUnsignedLongLong(semaphore_ids[i]));
\* the target list with the error of the last failed store.
RECURSIVE fill_semaphores(_, _, _, _)
fill_semaphores(target, err, ids, i) ==
    IF i >= Len(ids) THEN [list |-> target, err |-> err]
    ELSE LET set == PyList_SetItem(target, i, PyLong_FromUnsignedLongLong(ids[i + 1]))
         IN fill_semaphores(set.list, IF set.err = "none" THEN err ELSE set.err,
                            ids, i + 1)

InitRecon ==
    \E agents_owned \in DistinctSeqs(1..MaxId, MaxOwned),
       semaphores_owned \in DistinctSeqs(1..MaxId, MaxOwned) :
        recon = [agent_ids |-> agents_owned, semaphore_ids |-> semaphores_owned,
                 op |-> "new", ret |-> UNSET, err |-> "none",
                 py_states |-> << >>, py_semaphore_ids |-> << >>]

IdleRecon ==
    recon = [agent_ids |-> << >>, semaphore_ids |-> << >>,
             op |-> "new", ret |-> UNSET, err |-> "none",
             py_states |-> << >>, py_semaphore_ids |-> << >>]

\* simulator_reconnect_client; connected is false when reconnect_client
\* answers UINT64_MAX.
simulator_reconnect_client(connected) ==
    /\ recon.op = "new"
    /\ IF ~connected
       THEN recon' = [recon EXCEPT !.op = "done", !.ret = NULL, !.err = "RuntimeError"]
       ELSE LET py_states == fill_states(PyList_New(Len(recon.agent_ids)),
                                         recon.agent_ids, 0)
                py_semaphore_ids == PyList_New(Len(recon.semaphore_ids))
                filled == fill_semaphores(py_states, "none", recon.semaphore_ids, 0)
            IN recon' = [recon EXCEPT !.op = "done", !.ret = "tuple",
                                      !.err = filled.err,
                                      !.py_states = filled.list,
                                      !.py_semaphore_ids = py_semaphore_ids]
    /\ UNCHANGED nonReconVars

NextRecon == \E connected \in BOOLEAN : simulator_reconnect_client(connected)

(***************************************************************************)
(* Stepper, conflict resolution (spec section 4.6, step 1): three agents   *)
(* on the grid, each with at most one pending action per tick; when every  *)
(* agent has an action pending the stepper resolves the moves, advances    *)
(* the tick and clears the pending actions.                                *)
(***************************************************************************)
Movers == {1, 2, 3}
MoveDirections == {"UP", "LEFT", "RIGHT"}
NO_OP == "NO_OP"
ConflictPolicies == {"NO_COLLISIONS", "FIRST_COME_FIRST_SERVE", "RANDOM"}

StartPosition == [a \in Movers |-> CASE a = 1 -> <<-1, 0>>
                                     [] a = 2 -> <<1, 0>>
                                     [] OTHER -> <<0, -1>>]

\* The cell reached from position by one step in direction.
target_cell(position, direction) ==
    CASE direction = "UP" -> <<position[1], position[2] + 1>>
      [] direction = "LEFT" -> <<position[1] - 1, position[2]>>
      [] direction = "RIGHT" -> <<position[1] + 1, position[2]>>
      [] OTHER -> position

\* The orders in which the movers can be served.
MoverOrders == {s \in [1..Cardinality(Movers) -> Movers] :
                   \A i, j \in DOMAIN s : i # j => s[i] # s[j]}

\* A policy that serves the movers by descending agent id.
first_come_order_mutant ==
    CHOOSE s \in MoverOrders : \A i, j \in DOMAIN s : i < j => s[i] > s[j]

\* FIRST_COME_FIRST_SERVE: deterministic by ascending agent_id.
first_come_order ==
    CHOOSE s \in MoverOrders : \A i, j \in DOMAIN s : i < j => s[i] < s[j]

\* The order the movers are served in: ascending agent id, or the shuffle
\* drawn from the simulator RNG under RANDOM.
conflict_order(policy, shuffle) ==
    IF policy = "RANDOM" THEN shuffle ELSE first_come_order

\* Mover a obtains its target unless a mover served before it has the same
\* target; under NO_COLLISIONS every mover obtains its target.
obtains(policy, order, requested, position, a) ==
    /\ requested[a] \in MoveDirections
    /\ \/ policy = "NO_COLLISIONS"
       \/ \A b \in Movers :
             (/\ b # a
              /\ requested[b] \in MoveDirections
              /\ target_cell(position[b], requested[b]) = target_cell(position[a], requested[a]))
             => index_of(order, a) < index_of(order, b)

\* Positions after conflict resolution: losers of a collision stay in place.
resolve(policy, order, requested, position) ==
    [a \in Movers |->
        IF obtains(policy, order, requested, position, a)
        THEN target_cell(position[a], requested[a])
        ELSE position[a]]

NoRequests == [a \in Movers |-> "NONE"]

InitStep ==
    \E policy \in ConflictPolicies :
        stp = [policy |-> policy, position |-> StartPosition, requested |-> NoRequests,
               time |-> 0, stepped |-> FALSE,
               before |-> StartPosition, resolved |-> NoRequests]

IdleStep ==
    stp = [policy |-> "NO_COLLISIONS", position |-> StartPosition,
           requested |-> NoRequests, time |-> 0, stepped |-> FALSE,
           before |-> StartPosition, resolved |-> NoRequests]

\* A request of agent a (a move in a direction, or a no-op); the request that
\* completes the quorum runs the stepper.
stepper_request(a, action, shuffle) ==
    /\ stp.time < MaxSteps
    /\ stp.requested[a] = "NONE"
    /\ stp.policy # "RANDOM" => shuffle = first_come_order
    /\ LET requested == [stp.requested EXCEPT ![a] = action]
       IN IF \A b \in Movers : requested[b] # "NONE"
          THEN stp' = [stp EXCEPT
                          !.position = resolve(stp.policy,
                                               conflict_order(stp.policy, shuffle),
                                               requested, stp.position),
                          !.requested = NoRequests,
                          !.time = @ + 1,
                          !.stepped = TRUE,
                          !.before = stp.position,
                          !.resolved = requested]
          ELSE stp' = [stp EXCEPT !.requested = requested, !.stepped = FALSE]
    /\ UNCHANGED nonStepVars

NextStep ==
    \E a \in Movers, action \in MoveDirections \cup {NO_OP}, shuffle \in MoverOrders :
        stepper_request(a, action, shuffle)

(***************************************************************************)
(* gibbs_field::resample (gibbs_field.h): the regeneration pass over the   *)
(* patches of the batch.                                                   *)
(***************************************************************************)
\* The regeneration functions of the item types of the configuration.
item_regeneration_fns ==
    << [fn |-> "constant_regeneration_fn", args |-> <<1>>],
       [fn |-> "zero_regeneration_fn", args |-> << >>] >>

\* gibbs_field_cache::regeneration of an item type at a tick.
regeneration(item_type, tick) ==
    cache_regeneration(item_regeneration_fns[item_type + 1].fn, tick,
                       item_regeneration_fns[item_type + 1].args, 0).value

\* log(0) is minus infinity.
MinusInfinity == -1000000

\* log(k) of the C library, in hundredths.
log(k) == IF k = 0 THEN MinusInfinity ELSE logarithm(k)

\* The items of the sampled patches.
BatchItems == [k \in 1..patch_count |-> patches[PatchIndex(patch_positions[k])]]

InitRs ==
    rs = [calls |-> 0, current_time |-> 0, real_intensity |-> 0, r |-> 0,
          new_intensity |-> 0, proposals |-> 0,
          items_before |-> << >>, items_after |-> << >>]

IdleRs == InitRs

\* resample(rng, current_time): for every patch the loop computes
\* real_intensity, r and new_intensity and drops them; the call of sample is
\* commented out, so the pass makes no proposal and touches no patch.  The
\* record keeps the locals of the last iteration.
resample(current_time) ==
    /\ rs.calls < MaxResample
    /\ LET current == current_patch(patch_count)
           real_intensity ==
               IF Len(patches[current]) = 0 THEN MinusInfinity
               ELSE log(Len(patches[current])) - LOG_N_SQUARED
           r == 0
           new_intensity ==
               IF real_intensity = MinusInfinity THEN MinusInfinity
               ELSE log(1 + r) + real_intensity
       IN rs' = [calls |-> rs.calls + 1, current_time |-> current_time,
                 real_intensity |-> real_intensity, r |-> r,
                 new_intensity |-> new_intensity, proposals |-> 0,
                 items_before |-> BatchItems, items_after |-> BatchItems]
    /\ UNCHANGED nonRsVars

\* The batch a regeneration pass finds: every sampled patch is empty or holds
\* one item, of either type, at one of its cells.
PatchContents(k) ==
    {<< >>} \cup
    {<< [item_type |-> item_type,
         location |-> <<patch_position_offset(k)[1] + x, patch_position_offset(k)[2] + y>>,
         creation_time |-> 0, deletion_time |-> 0] >> :
        item_type \in 0..(item_type_count - 1), x \in 0..(n - 1), y \in 0..(n - 1)}

InitResample ==
    /\ \E first \in PatchContents(1), second \in PatchContents(2) :
          patches = [k \in 1..Len(world_positions) |->
                        IF k > patch_count THEN FixedItems
                        ELSE IF k = 1 THEN first ELSE second]
    /\ patch_i = 1
    /\ proposal = NoProposal
    /\ sweep = [pc |-> "idle", visited |-> << >>, start |-> [k \in 1..patch_count |-> 0]]

NextResample == \E current_time \in 0..MaxRegenTime : resample(current_time)

(***************************************************************************)
(* gibbs_field_cache::interaction against the interaction function itself, *)
(* for the stationary, non-constant functions (the ones that get a table). *)
(***************************************************************************)
TabulatedInteractions ==
    { [fn |-> "piecewise_box_interaction_fn", args |-> <<2, 5, -300, 50>>],
      [fn |-> "piecewise_box_interaction_fn", args |-> <<10, 17, 40, -60>>],
      [fn |-> "cross_interaction_fn", args |-> <<1, 2, -100, 20, -50, 10>>],
      [fn |-> "cross_interaction_fn", args |-> <<2, 4, 30, -70, 15, -35>>],
      [fn |-> "moore_interaction_fn", args |-> << >>] }

\* Positions a lookup starts from.
FirstPositions == {<<0, 0>>, <<3, -2>>}

\* first_position - second_position of a lookup: [-2n, 2n) on both axes.
Displacements == ((-two_n)..(two_n - 1)) \X ((-two_n)..(two_n - 1))

InitIch ==
    \E interaction \in TabulatedInteractions :
        ich = [interaction |-> interaction, op |-> "new",
               first_position |-> <<0, 0>>, second_position |-> <<0, 0>>,
               cached |-> 0, direct |-> 0]

IdleIch ==
    ich = [interaction |-> [fn |-> "zero_interaction_fn", args |-> << >>], op |-> "new",
           first_position |-> <<0, 0>>, second_position |-> <<0, 0>>,
           cached |-> 0, direct |-> 0]

\* One lookup in the cache, and the direct call with the same arguments.
lookup_interaction(first_position, displacement) ==
    /\ LET second_position == <<first_position[1] - displacement[1],
                                first_position[2] - displacement[2]>>
       IN ich' = [ich EXCEPT
                     !.op = "lookup",
                     !.first_position = first_position,
                     !.second_position = second_position,
                     !.cached = cached_interaction(ich.interaction, first_position,
                                                   second_position),
                     !.direct = call_interaction_fn(ich.interaction, first_position,
                                                    second_position)]
    /\ UNCHANGED nonIchVars

NextIch ==
    \E first_position \in FirstPositions, displacement \in Displacements :
        lookup_interaction(first_position, displacement)

(***************************************************************************)
(* The built-in interaction functions (energy_functions.h): one call on    *)
(* (pos1, pos2), the call on both positions moved by the same shift, and   *)
(* gibbs_field_cache::interaction on (pos1, pos2).                         *)
(***************************************************************************)
BuiltinInteractions ==
    { [fn |-> "zero_interaction_fn", args |-> << >>],
      [fn |-> "piecewise_box_interaction_fn", args |-> <<2, 5, -300, 50>>],
      [fn |-> "piecewise_box_interaction_fn", args |-> <<10, 17, 40, -60>>],
      [fn |-> "gaussian_interaction_fn", args |-> <<1, 100000>>],
      [fn |-> "cross_interaction_fn", args |-> <<1, 2, -100, 20, -50, 10>>],
      [fn |-> "cross_hash_interaction_fn",
       args |-> <<2, 100, 2, 100, -100, 20, -50, 10>>],
      [fn |-> "moore_interaction_fn", args |-> << >>],
      [fn |-> "four_interaction_fn", args |-> << >>] }

\* pos1 - pos2 of a call: up to one cell beyond 2n on both axes
WideDisplacements == ((-two_n - 1)..(two_n + 1)) \X ((-two_n - 1)..(two_n + 1))

\* The same move applied to both positions.
Shifts == {<<1, 0>>, <<0, 1>>, <<-3, 2>>}

\* What the read interactions[..][diff.x*four_n + diff.y] yields for a diff
\* outside the table: 0.0f where the range check is compiled in, and with
\* NDEBUG whatever lies at that address.
BeyondTable == {0, -777}

IdleIfn ==
    ifn = [interaction |-> [fn |-> "zero_interaction_fn", args |-> << >>], op |-> "new",
           pos1 |-> <<0, 0>>, pos2 |-> <<0, 0>>, shift |-> <<0, 0>>,
           value |-> 0, shifted |-> 0, cached |-> 0]

InitIfn ==
    \E interaction \in BuiltinInteractions :
        ifn = [interaction |-> interaction, op |-> "new",
               pos1 |-> <<0, 0>>, pos2 |-> <<0, 0>>, shift |-> <<0, 0>>,
               value |-> 0, shifted |-> 0, cached |-> 0]

\* first_position - second_position + position(two_n, two_n) lies in the table
in_table(first_position, second_position) ==
    LET diff == table_index(first_position, second_position)
    IN diff[1] >= 0 /\ diff[1] < four_n /\ diff[2] >= 0 /\ diff[2] < four_n

\* gibbs_field_cache::interaction without the early return for equal
\* positions in the branch that calls the function.
cache_lookup_mutant(interaction, first_position, second_position, beyond) ==
    IF is_constant(interaction.fn) \/ ~is_stationary_interaction(interaction.fn)
    THEN call_interaction_fn(interaction, first_position, second_position)
    ELSE cached_interaction(interaction, first_position, second_position)

\* gibbs_field_cache::interaction in either build: beyond is what the read
\* outside the table yields.
cache_lookup(interaction, first_position, second_position, beyond) ==
    IF /\ ~is_constant(interaction.fn)
       /\ is_stationary_interaction(interaction.fn)
       /\ ~in_table(first_position, second_position)
    THEN beyond
    ELSE cached_interaction(interaction, first_position, second_position)

\* One call of the function on (pos1, pos1 - displacement), one on both
\* positions moved by shift, and one lookup in the cache.
call_interaction(pos1, displacement, shift, beyond) ==
    /\ ifn.op = "new"
    /\ LET pos2 == <<pos1[1] - displacement[1], pos1[2] - displacement[2]>>
       IN ifn' = [ifn EXCEPT
                     !.op = "call",
                     !.pos1 = pos1,
                     !.pos2 = pos2,
                     !.shift = shift,
                     !.value = call_interaction_fn(ifn.interaction, pos1, pos2),
                     !.shifted = call_interaction_fn(ifn.interaction,
                                     <<pos1[1] + shift[1], pos1[2] + shift[2]>>,
                                     <<pos2[1] + shift[1], pos2[2] + shift[2]>>),
                     !.cached = cache_lookup(ifn.interaction, pos1, pos2, beyond)]
    /\ UNCHANGED nonIfnVars

NextIfn ==
    \E pos1 \in FirstPositions, displacement \in WideDisplacements,
       shift \in Shifts, beyond \in BeyondTable :
        call_interaction(pos1, displacement, shift, beyond)

(***************************************************************************)
(* GIBBS_SAMPLING (gibbs_field.h): the four position lists that            *)
(* gibbs_field_cache::init_helper builds for a patch size, shuffle, and    *)
(* the sweep of gibbs_field::sample over one patch.  The sweep is followed *)
(* up to the call of gibbs_sample_cell: the cell handed to it is recorded. *)
(***************************************************************************)
MaxPatchSize == 4

Quadrants == <<"bottom_left", "top_left", "bottom_right", "top_right">>

\* The order in which the sweep goes through the lists.
SweepOrder == <<"bottom_left", "top_right", "top_left", "bottom_right">>

\* for (x = x0; x < x1; x++) for (y = y0; y < y1; y++) list[i++] = position(x, y)
RECURSIVE write_positions(_, _, _, _, _, _)
write_positions(x, x1, y, y0, y1, written) ==
    IF x >= x1 THEN written
    ELSE IF y >= y1 THEN write_positions(x + 1, x1, y0, y0, y1, written)
    ELSE write_positions(x, x1, y + 1, y0, y1, Append(written, <<x, y>>))

\* Everything the four loops of init_helper write, in the order written.
written_positions(size) ==
    LET half_n == size \div 2
    IN [bottom_left |-> write_positions(0, half_n, 0, 0, half_n, << >>),
        top_left |-> write_positions(0, half_n, half_n, half_n, size, << >>),
        bottom_right |-> write_positions(half_n, size, 0, 0, half_n, << >>),
        top_right |-> write_positions(half_n, size, half_n, half_n, size, << >>)]

\* malloc(sizeof(position) * half_n * half_n): the entries a list can hold
list_capacity(size) == (size \div 2) * (size \div 2)

\* What a write past the end of a malloc block may lead to.
OverflowOutcomes == {"continues", "aborts"}

\* What shuffle does with length 0: it returns where the check is compiled
\* in; with NDEBUG i starts at UINT_MAX and rng() % (i + 1) divides by 0.
EmptyShuffleOutcomes == {"returns", "aborts"}

swap(array, a, b) ==
    [k \in 1..Len(array) |-> IF k = a THEN array[b] ELSE IF k = b THEN array[a] ELSE array[k]]

\* for (i = length - 1; i > 0; i--) { next = rng() % (i + 1); swap }
RECURSIVE shuffle(_, _, _)
shuffle(array, i, draws) ==
    IF i <= 0 THEN array
    ELSE shuffle(swap(array, (Head(draws) % (i + 1)) + 1, i + 1), i - 1, Tail(draws))

NoLists == [q \in Range(Quadrants) |-> << >>]

IdleGib ==
    gib = [n |-> 2, pc |-> "new", lists |-> NoLists,
           overflow |-> [q \in Range(Quadrants) |-> 0],
           q |-> 1, j |-> 0, visited |-> << >>]

InitGib ==
    \E size \in 1..MaxPatchSize :
        gib = [n |-> size, pc |-> "new", lists |-> NoLists,
               overflow |-> [q \in Range(Quadrants) |-> 0],
               q |-> 1, j |-> 0, visited |-> << >>]

\* init_helper: each list keeps what fits into its block; the rest is
\* written past the end of the block.
init_helper(outcome) ==
    /\ gib.pc = "new"
    /\ LET written == written_positions(gib.n)
           capacity == list_capacity(gib.n)
           overflow == [q \in Range(Quadrants) |->
                           IF Len(written[q]) > capacity THEN Len(written[q]) - capacity
                           ELSE 0]
           overflows == \E q \in Range(Quadrants) : overflow[q] > 0
       IN /\ overflows \/ outcome = "continues"
          /\ gib' = [gib EXCEPT
                        !.lists = [q \in Range(Quadrants) |->
                                      IF Len(written[q]) > capacity
                                      THEN SubSeq(written[q], 1, capacity)
                                      ELSE written[q]],
                        !.overflow = overflow,
                        !.pc = IF outcome = "aborts" THEN "failed" ELSE "shuffle"]
    /\ UNCHANGED nonGibVars

\* sample: shuffle(cache.<list>, half_n_squared, rng), one list per step in
\* the order of the four calls.
gibbs_shuffle(draws, outcome) ==
    /\ gib.pc = "shuffle"
    /\ LET length == list_capacity(gib.n)
           name == Quadrants[gib.q]
       IN /\ Len(draws) = (IF length > 0 THEN length - 1 ELSE 0)
          /\ length = 0 \/ outcome = "returns"
          /\ gib' = [gib EXCEPT
                        !.lists[name] = shuffle(@, length - 1, draws),
                        !.q = IF gib.q = Len(Quadrants) THEN 1 ELSE gib.q + 1,
                        !.pc = IF outcome = "aborts" THEN "failed"
                               ELSE IF gib.q = Len(Quadrants) THEN "sweep"
                               ELSE "shuffle"]
    /\ UNCHANGED nonGibVars

\* sample: one pass of one of the four loops over j < half_n_squared, which
\* hands patch_position_offset + cache.<list>[j] to gibbs_sample_cell.
gibbs_visit_cell ==
    /\ gib.pc = "sweep"
    /\ gib.j < list_capacity(gib.n)
    /\ LET name == SweepOrder[gib.q]
           last == gib.j + 1 = list_capacity(gib.n)
       IN gib' = [gib EXCEPT
                     !.visited = Append(@, gib.lists[name][gib.j + 1]),
                     !.j = IF last THEN 0 ELSE gib.j + 1,
                     !.q = IF last /\ gib.q < Len(SweepOrder) THEN gib.q + 1 ELSE gib.q,
                     !.pc = IF last /\ gib.q = Len(SweepOrder) THEN "done" ELSE "sweep"]
    /\ UNCHANGED nonGibVars

\* sample with half_n_squared = 0: none of the four loops runs.
gibbs_visit_none ==
    /\ gib.pc = "sweep"
    /\ list_capacity(gib.n) = 0
    /\ gib' = [gib EXCEPT !.pc = "done"]
    /\ UNCHANGED nonGibVars

\* The draws of one shuffle: one per swap.
ShuffleDraws == UNION {[1..k -> RngDraws] : k \in 0..(list_capacity(MaxPatchSize) - 1)}

NextGib ==
    \/ \E outcome \in OverflowOutcomes : init_helper(outcome)
    \/ \E draws \in ShuffleDraws, outcome \in EmptyShuffleOutcomes :
          gibbs_shuffle(draws, outcome)
    \/ gibbs_visit_cell
    \/ gibbs_visit_none

(***************************************************************************)
(* shuffle (gibbs_field.h 221-234), one loop pass per step.  An unsigned   *)
(* int is kept as the integer with the same bits: -1 stands for UINT_MAX,  *)
(* so that length - 1 wraps for length 0 and i + 1 wraps back to 0.        *)
(***************************************************************************)
MaxShuffleLength == 3

ShuffleElements == {"a", "b", "c"}

ShuffleArrays == UNION {[1..k -> ShuffleElements] : k \in 0..MaxShuffleLength}

\* The outputs of rng() tried in one pass.
RngOutputs == 0..3

\* rng() % 0: the division traps, or the build yields some value.
ZeroModulusOutcomes == {"traps", "yields 0"}

\* unsigned i > 0
unsigned_positive(i) == i # 0

IdleShf ==
    shf = [pc |-> "new", ndebug |-> FALSE, original |-> << >>, array |-> << >>,
           length |-> 0, i |-> 0, touched |-> {}]

InitShf ==
    \E array \in ShuffleArrays, ndebug \in BOOLEAN :
        shf = [pc |-> "new", ndebug |-> ndebug, original |-> array, array |-> array,
               length |-> Len(array), i |-> 0, touched |-> {}]

\* The first index of the loop: i = length - 1.
shuffle_first_i(length) == length - 1

\* Entry of shuffle: the length check is compiled in without NDEBUG.
shuffle_enter ==
    /\ shf.pc = "new"
    /\ shf' = IF ~shf.ndebug /\ shf.length = 0
              THEN [shf EXCEPT !.pc = "done"]
              ELSE [shf EXCEPT !.pc = "loop", !.i = shuffle_first_i(shf.length)]
    /\ UNCHANGED nonShfVars

\* array[k] for a zero-based k; outside the array the read is whatever the
\* memory holds.
shuffle_read(array, k) == IF k \in 0..(Len(array) - 1) THEN array[k + 1] ELSE "?"

\* core::swap(array[next], array[i]); a write outside the array is not kept.
shuffle_swap(array, next, i) ==
    [k \in 1..Len(array) |->
        IF k - 1 = next THEN shuffle_read(array, i)
        ELSE IF k - 1 = i THEN shuffle_read(array, next)
        ELSE array[k]]

\* One pass of the loop with i > 0 and a modulus i + 1 that is not 0.
shuffle_pass(draw) ==
    /\ shf.pc = "loop"
    /\ unsigned_positive(shf.i)
    /\ shf.i + 1 # 0
    /\ LET next == draw % (shf.i + 1)
       IN shf' = [shf EXCEPT
                     !.array = IF next # shf.i THEN shuffle_swap(@, next, shf.i) ELSE @,
                     !.touched = IF next # shf.i THEN @ \cup {next, shf.i} ELSE @,
                     !.i = shf.i - 1]
    /\ UNCHANGED nonShfVars

\* The pass with i = UINT_MAX: rng() % (i + 1) divides by 0.
shuffle_pass_wrapped(outcome) ==
    /\ shf.pc = "loop"
    /\ unsigned_positive(shf.i)
    /\ shf.i + 1 = 0
    /\ shf' = IF outcome = "traps" THEN [shf EXCEPT !.pc = "failed"]
              ELSE [shf EXCEPT !.touched = @ \cup {0, shf.i},
                               !.array = shuffle_swap(@, 0, shf.i),
                               !.pc = "failed"]
    /\ UNCHANGED nonShfVars

\* i > 0 is false: the loop ends and shuffle returns.
shuffle_return ==
    /\ shf.pc = "loop"
    /\ ~unsigned_positive(shf.i)
    /\ shf' = [shf EXCEPT !.pc = "done"]
    /\ UNCHANGED nonShfVars

NextShf ==
    \/ shuffle_enter
    \/ \E draw \in RngOutputs : shuffle_pass(draw)
    \/ \E outcome \in ZeroModulusOutcomes : shuffle_pass_wrapped(outcome)
    \/ shuffle_return

(***************************************************************************)
(* The owned agent-id list (py_simulator_data::agent_ids) against the      *)
(* agent table, with the handlers split where another thread can run:      *)
(* simulator_remove_agent releases the global interpreter lock and changes *)
(* the table before the list; simulator_add_agent keeps the interpreter    *)
(* lock and changes the table before the list; on_step takes the           *)
(* interpreter lock and reads the list against the table.  A request of    *)
(* the last outstanding agent runs the stepper.                            *)
(***************************************************************************)
MaxOwnedAgents == 3

NoStep == [ran |-> FALSE, ids |-> << >>, table |-> {}, states |-> << >>]

IdleOwn ==
    own = [table |-> {}, agent_ids |-> << >>, acted |-> {}, next_id |-> 1,
           adder |-> 0, remover |-> 0, stepping |-> FALSE, step |-> NoStep]

InitOwn == IdleOwn

\* The coordinator's test after a change of the table or of the reports.
own_quorum(table, acted) == table # {} /\ acted = table

\* simulator_add_agent up to the return of sim_handle->add_agent (line 1567)
add_agent_table ==
    /\ own.adder = 0
    /\ ~own.stepping
    /\ own.next_id <= MaxOwnedAgents
    /\ own' = [own EXCEPT !.table = @ \cup {own.next_id},
                          !.adder = own.next_id,
                          !.next_id = @ + 1]
    /\ UNCHANGED nonOwnVars

\* agent_ids.add(new_agent_id) (line 1572)
add_agent_list ==
    /\ own.adder # 0
    /\ own' = [own EXCEPT !.agent_ids = Append(@, own.adder), !.adder = 0]
    /\ UNCHANGED nonOwnVars

\* simulator_remove_agent up to the return of sim_handle->remove_agent
\* (line 1634) with status OK; a handler is entered with the interpreter
\* lock, so not while simulator_add_agent runs.
remove_agent_table(id) ==
    /\ own.remover = 0
    /\ own.adder = 0
    /\ ~own.stepping
    /\ id \in own.table
    /\ own' = [own EXCEPT !.table = @ \ {id},
                          !.acted = @ \ {id},
                          !.remover = id,
                          !.stepping = own_quorum(own.table \ {id}, own.acted \ {id})]
    /\ UNCHANGED nonOwnVars

\* index = agent_ids.index_of(agent_id); if (index != length) remove(index)
remove_owned_id(ids, id) ==
    IF index_of(ids, id) # Len(ids) + 1 THEN array_remove(ids, index_of(ids, id)) ELSE ids

\* lines 1636-1638 of simulator_remove_agent
remove_agent_list ==
    /\ own.remover # 0
    /\ own' = [own EXCEPT !.agent_ids = remove_owned_id(@, own.remover), !.remover = 0]
    /\ UNCHANGED nonOwnVars

\* A move, turn or no_op of an agent that has not acted in this tick.
own_act(id) ==
    /\ own.adder = 0
    /\ ~own.stepping
    /\ id \in own.table \ own.acted
    /\ own' = [own EXCEPT !.acted = @ \cup {id},
                          !.stepping = own_quorum(own.table, own.acted \cup {id})]
    /\ UNCHANGED nonOwnVars

\* agents.get(data.agent_ids[i]) for every i: the id when the table holds
\* it, 0 for a lookup of an id the table does not hold.
own_states(ids, table) == [i \in 1..Len(ids) |-> IF ids[i] \in table THEN ids[i] ELSE 0]

\* on_step (lines 321-351), run by the stepper; PyGILState_Ensure waits for
\* the thread in simulator_add_agent, which holds the interpreter lock.
own_on_step ==
    /\ own.stepping
    /\ own.adder = 0
    /\ own' = [own EXCEPT !.step = [ran |-> TRUE, ids |-> own.agent_ids,
                                    table |-> own.table,
                                    states |-> own_states(own.agent_ids, own.table)],
                          !.acted = {},
                          !.stepping = FALSE]
    /\ UNCHANGED nonOwnVars

NextOwn ==
    \/ add_agent_table
    \/ add_agent_list
    \/ \E id \in 1..MaxOwnedAgents : remove_agent_table(id)
    \/ remove_agent_list
    \/ \E id \in 1..MaxOwnedAgents : own_act(id)
    \/ own_on_step

(***************************************************************************)
(* wait_for_server against the listener thread (simulator.cpp 556-562,     *)
(* 767-801), statement by statement: the mutex c.data.lock, the condition  *)
(* variable c.data.cv, and the two flags of the loop condition.  A thread  *)
(* in cv.wait leaves it only when a notify_one picks it.                   *)
(***************************************************************************)
Waiters == 1..MaxThreads

NoHolder == 0

IdleWt ==
    wt = [waiting_for_server |-> FALSE, client_running |-> FALSE, lock |-> NoHolder,
          pc |-> [t \in Waiters |-> "idle"], in_flight |-> {}, answered |-> {},
          listener |-> "idle"]

InitWt ==
    wt = [waiting_for_server |-> FALSE, client_running |-> TRUE, lock |-> NoHolder,
          pc |-> [t \in Waiters |-> "idle"], in_flight |-> {}, answered |-> {},
          listener |-> "idle"]

\* The client branch of a call up to wait_for_server: the client_running
\* test, waiting_for_server = true, the send.
wait_request(t) ==
    /\ wt.pc[t] = "idle"
    /\ wt' = IF wt.client_running
             THEN [wt EXCEPT !.waiting_for_server = TRUE,
                             !.in_flight = @ \cup {t},
                             !.pc[t] = "lock"]
             ELSE [wt EXCEPT !.pc[t] = "returned"]
    /\ UNCHANGED nonWtVars

\* std::unique_lock<std::mutex> lck(c.data.lock), and the lock taken again
\* when cv.wait returns
wait_lock(t) ==
    /\ wt.pc[t] = "lock"
    /\ wt.lock = NoHolder
    /\ wt' = [wt EXCEPT !.lock = t, !.pc[t] = "test"]
    /\ UNCHANGED nonWtVars

\* while (c.data.waiting_for_server && c.client_running): on false the
\* function returns and the lock is released.
wait_test(t) ==
    /\ wt.pc[t] = "test"
    /\ wt' = IF wt.waiting_for_server /\ wt.client_running
             THEN [wt EXCEPT !.pc[t] = "wait"]
             ELSE [wt EXCEPT !.pc[t] = "returned", !.lock = NoHolder]
    /\ UNCHANGED nonWtVars

\* c.data.cv.wait(lck): the lock is released and the thread blocks.
wait_block(t) ==
    /\ wt.pc[t] = "wait"
    /\ wt' = [wt EXCEPT !.pc[t] = "blocked", !.lock = NoHolder]
    /\ UNCHANGED nonWtVars

\* The threads a notify_one can wake: one of the blocked threads, none (0)
\* when no thread is blocked.
notify_one_targets(pc) ==
    IF \E t \in Waiters : pc[t] = "blocked"
    THEN {t \in Waiters : pc[t] = "blocked"}
    ELSE {0}

\* c.data.cv.notify_one() waking target
notify_one(pc, target) ==
    [t \in Waiters |-> IF t = target THEN "lock" ELSE pc[t]]

\* on_move and the other response callbacks, for the request of thread t:
\* under c.data.lock, waiting_for_server = false and notify_one.
wait_on_response(t, target) ==
    /\ t \in wt.in_flight
    /\ wt.client_running
    /\ wt.listener = "idle"
    /\ wt.lock = NoHolder
    /\ target \in notify_one_targets(wt.pc)
    /\ wt' = [wt EXCEPT !.waiting_for_server = FALSE,
                        !.in_flight = @ \ {t},
                        !.answered = @ \cup {t},
                        !.pc = notify_one(@, target)]
    /\ UNCHANGED nonWtVars

\* on_lost_connection: c.client_running = false, without c.data.lock
lost_connection_flag ==
    /\ wt.listener = "idle"
    /\ wt.client_running
    /\ wt' = [wt EXCEPT !.client_running = FALSE, !.listener = "notify"]
    /\ UNCHANGED nonWtVars

\* on_lost_connection: c.data.cv.notify_one(), without c.data.lock
lost_connection_notify(target) ==
    /\ wt.listener = "notify"
    /\ target \in notify_one_targets(wt.pc)
    /\ wt' = [wt EXCEPT !.pc = notify_one(@, target), !.listener = "lost"]
    /\ UNCHANGED nonWtVars

\* The steps of thread t inside wait_for_server.
wait_step(t) == wait_lock(t) \/ wait_test(t) \/ wait_block(t)

NextWt ==
    \/ \E t \in Waiters : wait_request(t)
    \/ \E t \in Waiters : wait_lock(t)
    \/ \E t \in Waiters : wait_test(t)
    \/ \E t \in Waiters : wait_block(t)
    \/ \E t \in Waiters, target \in Waiters \cup {0} : wait_on_response(t, target)
    \/ lost_connection_flag
    \/ \E target \in Waiters \cup {0} : lost_connection_notify(target)

(***************************************************************************)
(* The per-agent locks taken by simulator::get_agent_states for its        *)
(* callers simulator_agent_states, simulator_get_x_coordinates (local      *)
(* mode) and simulator_load: how often each agent's lock is acquired and   *)
(* how often the caller unlocks it before it returns.                      *)
(***************************************************************************)
LockCallers == {"simulator_agent_states", "simulator_get_x_coordinates", "simulator_load"}

\* Where a caller can be made to fail by its environment.
LockFaults == {"none", "malloc_agent_ids", "malloc_agent_states", "PyList_New"}

\* What *agent_states[i] on a null pointer can do.
NullStateOutcomes == {"aborts", "continues"}

NoLocks == [a \in 1..MaxId |-> 0]

\* get_agent_states locks the state of every id it finds.
acquired_locks(known, ids) ==
    [a \in 1..MaxId |-> Cardinality({i \in 1..Len(ids) : ids[i] = a /\ a \in known})]

\* The loops of simulator_agent_states and simulator_get_x_coordinates:
\* if (agent_states[i] != nullptr) agent_states[i]->lock.unlock();
unlock_found(known, ids) ==
    [a \in 1..MaxId |-> Cardinality({i \in 1..Len(ids) : ids[i] = a /\ a \in known})]

\* The loop of simulator_load: agent_states[i]->lock.unlock() for every i.
unlock_all(ids) ==
    [a \in 1..MaxId |-> Cardinality({i \in 1..Len(ids) : ids[i] = a})]

\* simulator_agent_states and simulator_get_x_coordinates, local mode, from
\* the malloc of agent_ids to the return.
query_locks(known, ids, fault) ==
    IF fault \in {"malloc_agent_ids", "malloc_agent_states"}
    THEN [ret |-> NULL, acquired |-> NoLocks, unlocked |-> NoLocks]
    ELSE IF fault = "PyList_New"
    THEN [ret |-> NULL, acquired |-> acquired_locks(known, ids),
          unlocked |-> unlock_found(known, ids)]
    ELSE [ret |-> "list", acquired |-> acquired_locks(known, ids),
          unlocked |-> unlock_found(known, ids)]

\* simulator_load from the malloc of agent_states (line 1140) to the return,
\* for a file holding the agent table known and the id list ids.
load_locks(known, ids, fault, ub) ==
    IF fault \in {"malloc_agent_ids", "malloc_agent_states"}
    THEN [ret |-> NULL, acquired |-> NoLocks, unlocked |-> NoLocks]
    ELSE IF fault = "PyList_New"
    THEN [ret |-> NULL, acquired |-> acquired_locks(known, ids), unlocked |-> NoLocks]
    ELSE IF (\E i \in 1..Len(ids) : ids[i] \notin known) /\ ub = "aborts"
    THEN [ret |-> "abort", acquired |-> acquired_locks(known, ids),
          unlocked |-> unlock_all(SubSeq(ids, 1,
                          (CHOOSE i \in 1..Len(ids) :
                              ids[i] \notin known /\ \A j \in 1..(i - 1) : ids[j] \in known) - 1))]
    ELSE [ret |-> "tuple", acquired |-> acquired_locks(known, ids),
          unlocked |-> unlock_all(ids)]

IdleLk ==
    lk = [caller |-> "simulator_agent_states", known |-> {}, ids |-> << >>,
          op |-> "new", ret |-> UNSET, acquired |-> NoLocks, unlocked |-> NoLocks]

\* The ids handed in carry no id twice.
InitLk ==
    \E caller \in LockCallers, known \in SUBSET (1..MaxId) :
        \E ids \in DistinctSeqs(1..MaxId, MaxQuery) :
            lk = [caller |-> caller, known |-> known, ids |-> ids,
                  op |-> "new", ret |-> UNSET, acquired |-> NoLocks, unlocked |-> NoLocks]

lock_query(fault) ==
    /\ lk.op = "new"
    /\ lk.caller # "simulator_load"
    /\ LET r == query_locks(lk.known, lk.ids, fault)
       IN lk' = [lk EXCEPT !.op = fault, !.ret = r.ret,
                           !.acquired = r.acquired, !.unlocked = r.unlocked]
    /\ UNCHANGED nonLkVars

lock_load(fault, ub) ==
    /\ lk.op = "new"
    /\ lk.caller = "simulator_load"
    /\ fault # "malloc_agent_ids"
    /\ LET r == load_locks(lk.known, lk.ids, fault, ub)
       IN lk' = [lk EXCEPT !.op = fault, !.ret = r.ret,
                           !.acquired = r.acquired, !.unlocked = r.unlocked]
    /\ UNCHANGED nonLkVars

NextLk ==
    \/ \E fault \in LockFaults : lock_query(fault)
    \/ \E fault \in LockFaults, ub \in NullStateOutcomes : lock_load(fault, ub)

(***************************************************************************)
(* The specifications: each drives one group of variables.                 *)
(***************************************************************************)
InitSpecSim == InitSim /\ IdleFns /\ IdleRegen /\ IdleSnap /\ IdleQry /\ IdleField /\ IdleCli /\ IdlePerm /\ IdleRecon /\ IdleStep /\ IdleRs /\ IdleIch /\ IdleIfn /\ IdleGib /\ IdleShf /\ IdleOwn /\ IdleWt /\ IdleLk
SpecSim == InitSpecSim /\ [][NextSim]_vars

InitSpecFns == InitSim /\ InitFns /\ IdleRegen /\ IdleSnap /\ IdleQry /\ IdleField /\ IdleCli /\ IdlePerm /\ IdleRecon /\ IdleStep /\ IdleRs /\ IdleIch /\ IdleIfn /\ IdleGib /\ IdleShf /\ IdleOwn /\ IdleWt /\ IdleLk
NextFns == Resolve \/ MapBack \/ WriteFn \/ ReadFn \/ ReadRaw
SpecFns == InitSpecFns /\ [][NextFns]_vars

InitSpecRegen == InitSim /\ IdleFns /\ IdleRegen /\ IdleSnap /\ IdleQry /\ IdleField /\ IdleCli /\ IdlePerm /\ IdleRecon /\ IdleStep /\ IdleRs /\ IdleIch /\ IdleIfn /\ IdleGib /\ IdleShf /\ IdleOwn /\ IdleWt /\ IdleLk
SpecRegen == InitSpecRegen /\ [][Regeneration]_vars

InitSpecSnap == InitSim /\ IdleFns /\ IdleRegen /\ InitSnap /\ IdleQry /\ IdleField /\ IdleCli /\ IdlePerm /\ IdleRecon /\ IdleStep /\ IdleRs /\ IdleIch /\ IdleIfn /\ IdleGib /\ IdleShf /\ IdleOwn /\ IdleWt /\ IdleLk
SpecSnap == InitSpecSnap /\ [][NextSnap]_vars

InitSpecStates == InitSim /\ IdleFns /\ IdleRegen /\ IdleSnap /\ InitQry /\ IdleField /\ IdleCli /\ IdlePerm /\ IdleRecon /\ IdleStep /\ IdleRs /\ IdleIch /\ IdleIfn /\ IdleGib /\ IdleShf /\ IdleOwn /\ IdleWt /\ IdleLk
SpecStates == InitSpecStates /\ [][NextQry]_vars

InitSpecField == InitSim /\ IdleFns /\ IdleRegen /\ IdleSnap /\ IdleQry /\ InitField /\ IdleCli /\ IdlePerm /\ IdleRecon /\ IdleStep /\ IdleRs /\ IdleIch /\ IdleIfn /\ IdleGib /\ IdleShf /\ IdleOwn /\ IdleWt /\ IdleLk
SpecField == InitSpecField /\ [][NextField]_vars

\* A call of sample that has started runs its loop without waiting for
\* anything: the loop index of a running call advances.  Under NextField
\* the steps that advance it are the steps of sample_iteration.
loop_advances == sweep.pc = "loop" /\ patch_i' = next_i(patch_i)

SpecSample == InitSpecField /\ [][NextField]_vars /\ WF_patch_i(loop_advances)

InitSpecClient == InitSim /\ IdleFns /\ IdleRegen /\ IdleSnap /\ IdleQry /\ IdleField /\ InitCli /\ IdlePerm /\ IdleRecon /\ IdleStep /\ IdleRs /\ IdleIch /\ IdleIfn /\ IdleGib /\ IdleShf /\ IdleOwn /\ IdleWt /\ IdleLk
SpecClient == InitSpecClient /\ [][NextCli]_vars

InitSpecPerms == InitSim /\ IdleFns /\ IdleRegen /\ IdleSnap /\ IdleQry /\ IdleField /\ IdleCli /\ InitPerm /\ IdleRecon /\ IdleStep /\ IdleRs /\ IdleIch /\ IdleIfn /\ IdleGib /\ IdleShf /\ IdleOwn /\ IdleWt /\ IdleLk
SpecPerms == InitSpecPerms /\ [][NextPerm]_vars

InitSpecReconnect == InitSim /\ IdleFns /\ IdleRegen /\ IdleSnap /\ IdleQry /\ IdleField /\ IdleCli /\ IdlePerm /\ InitRecon /\ IdleStep /\ IdleRs /\ IdleIch /\ IdleIfn /\ IdleGib /\ IdleShf /\ IdleOwn /\ IdleWt /\ IdleLk
SpecReconnect == InitSpecReconnect /\ [][NextRecon]_vars

InitSpecStepper == InitSim /\ IdleFns /\ IdleRegen /\ IdleSnap /\ IdleQry /\ IdleField /\ IdleCli /\ IdlePerm /\ IdleRecon /\ InitStep /\ IdleRs /\ IdleIch /\ IdleIfn /\ IdleGib /\ IdleShf /\ IdleOwn /\ IdleWt /\ IdleLk
SpecStepper == InitSpecStepper /\ [][NextStep]_vars

InitSpecResample == InitSim /\ IdleFns /\ IdleRegen /\ IdleSnap /\ IdleQry /\ InitResample /\ IdleCli /\ IdlePerm /\ IdleRecon /\ IdleStep /\ InitRs /\ IdleIch /\ IdleIfn /\ IdleGib /\ IdleShf /\ IdleOwn /\ IdleWt /\ IdleLk
SpecResample == InitSpecResample /\ [][NextResample]_vars

InitSpecCache == InitSim /\ IdleFns /\ IdleRegen /\ IdleSnap /\ IdleQry /\ IdleField /\ IdleCli /\ IdlePerm /\ IdleRecon /\ IdleStep /\ IdleRs /\ InitIch /\ IdleIfn /\ IdleGib /\ IdleShf /\ IdleOwn /\ IdleWt /\ IdleLk
SpecCache == InitSpecCache /\ [][NextIch]_vars

InitSpecInteraction == InitSim /\ IdleFns /\ IdleRegen /\ IdleSnap /\ IdleQry /\ IdleField /\ IdleCli /\ IdlePerm /\ IdleRecon /\ IdleStep /\ IdleRs /\ IdleIch /\ InitIfn /\ IdleGib /\ IdleShf /\ IdleOwn /\ IdleWt /\ IdleLk
SpecInteraction == InitSpecInteraction /\ [][NextIfn]_vars

InitSpecGibbs == InitSim /\ IdleFns /\ IdleRegen /\ IdleSnap /\ IdleQry /\ IdleField /\ IdleCli /\ IdlePerm /\ IdleRecon /\ IdleStep /\ IdleRs /\ IdleIch /\ IdleIfn /\ InitGib /\ IdleShf /\ IdleOwn /\ IdleWt /\ IdleLk
SpecGibbs == InitSpecGibbs /\ [][NextGib]_vars

InitSpecShuffle == InitSim /\ IdleFns /\ IdleRegen /\ IdleSnap /\ IdleQry /\ IdleField /\ IdleCli /\ IdlePerm /\ IdleRecon /\ IdleStep /\ IdleRs /\ IdleIch /\ IdleIfn /\ IdleGib /\ InitShf /\ IdleOwn /\ IdleWt /\ IdleLk
SpecShuffle == InitSpecShuffle /\ [][NextShf]_vars

InitSpecOwned == InitSim /\ IdleFns /\ IdleRegen /\ IdleSnap /\ IdleQry /\ IdleField /\ IdleCli /\ IdlePerm /\ IdleRecon /\ IdleStep /\ IdleRs /\ IdleIch /\ IdleIfn /\ IdleGib /\ IdleShf /\ InitOwn /\ IdleWt /\ IdleLk
SpecOwned == InitSpecOwned /\ [][NextOwn]_vars

InitSpecLocks == InitSim /\ IdleFns /\ IdleRegen /\ IdleSnap /\ IdleQry /\ IdleField /\ IdleCli /\ IdlePerm /\ IdleRecon /\ IdleStep /\ IdleRs /\ IdleIch /\ IdleIfn /\ IdleGib /\ IdleShf /\ IdleOwn /\ IdleWt /\ InitLk
SpecLocks == InitSpecLocks /\ [][NextLk]_vars

InitSpecWait == InitSim /\ IdleFns /\ IdleRegen /\ IdleSnap /\ IdleQry /\ IdleField /\ IdleCli /\ IdlePerm /\ IdleRecon /\ IdleStep /\ IdleRs /\ IdleIch /\ IdleIfn /\ IdleGib /\ IdleShf /\ IdleOwn /\ InitWt /\ IdleLk
\* Every thread and the listener keep running: a step of wait_for_server
\* that can be taken is taken, and on_lost_connection reaches its notify.
SpecWait ==
    /\ InitSpecWait /\ [][NextWt]_vars
    /\ \A t \in Waiters : WF_vars(wait_step(t))
    /\ WF_vars(\E target \in Waiters \cup {0} : lost_connection_notify(target))

\* The argument counts the registry documents for each built-in.
DeclaredArgCount(kind, type, num_args) ==
    CASE kind = "intensity" ->
            (CASE type = intensity_fns.ZERO -> num_args = 0
               [] type = intensity_fns.CONSTANT_ -> num_args = 1
               [] type = intensity_fns.RADIAL_HASH -> num_args = 4
               [] OTHER -> FALSE)
      [] kind = "interaction" ->
            (CASE type = interaction_fns.ZERO -> num_args = 0
               [] type = interaction_fns.PIECEWISE_BOX -> num_args = 4
               [] type = interaction_fns.CROSS -> num_args = 6
               [] type = interaction_fns.CROSS_HASH -> num_args = 8
               [] type = interaction_fns.MOORE -> num_args = 0
               [] type = interaction_fns.FOUR -> num_args = 0
               [] type = interaction_fns.GAUSSIAN -> num_args = 2
               [] OTHER -> FALSE)
      [] kind = "regeneration" ->
            (CASE type = regeneration_fns.ZERO -> num_args = 0
               [] type = regeneration_fns.CONSTANT_ -> num_args = 1
               [] type = regeneration_fns.CUSTOM -> num_args >= 1
               [] OTHER -> FALSE)

(***************************************************************************)
(* C1: the tick advances (and on_step fires) exactly when every active     *)
(* agent has issued an action and every semaphore has been signaled for    *)
(* the current tick: every step saw nobody outstanding, on_step fired for  *)
(* every advance, and no handler returns leaving a full quorum unserved.   *)
(***************************************************************************)
C1_Quorum ==
    /\ step_info.outstanding = {}
    /\ step_info.time = time
    /\ ~(ExpectedCount > 0 /\ Outstanding(agents, semaphores, reporters) = {})

\* a tick advanced on the reports of an agent and of a semaphore
C1_Witness ==
    /\ time >= 1
    /\ ActiveAgents # {}
    /\ DOMAIN semaphores # {}
    /\ \E s \in DOMAIN semaphores : semaphores[s]
    /\ Len(step_info.states) >= 1

(***************************************************************************)
(* C2: between two tick advances at most one move / turn / no_op request   *)
(* of an agent is answered True, and a pending action is not overwritten   *)
(* before the tick advances.                                               *)
(***************************************************************************)
C2_ActionUniqueness ==
    /\ [](\A a \in DOMAIN succeeded : succeeded[a] <= 1)
    /\ [][\A a \in (DOMAIN agents) \cap (DOMAIN agents') :
            (agents[a].requested_action # NONE /\ time' = time)
                => agents'[a].requested_action = agents[a].requested_action]_vars

\* a second request of an agent with a pending action was answered False
C2_Witness ==
    \E a \in DOMAIN agents :
        /\ agents[a].requested_action # NONE
        /\ succeeded[a] = 1
        /\ py_result = Py_False
        /\ last_call = <<"act", a>>

(***************************************************************************)
(* C3: after any sequence of sample iterations started from patches in     *)
(* which no two items share a location, no two items of any patch share a  *)
(* location, and a birth proposed at a cell that an item already occupies  *)
(* leaves every patch as it was.                                           *)
(***************************************************************************)
NoSharedLocation ==
    \A p \in DOMAIN patches : \A a, b \in 1..Len(patches[p]) :
        a # b => patches[p][a].location # patches[p][b].location

OccupiedCell(position) ==
    \E p \in DOMAIN patches : \E m \in 1..Len(patches[p]) :
        patches[p][m].location = position

C3_NoSharedLocation ==
    /\ []NoSharedLocation
    /\ [][(proposal'.kind = "birth" /\ OccupiedCell(proposal'.position))
            => (patches' = patches /\ ~proposal'.accepted)]_vars

\* a birth was proposed at the cell of an item of a patch holding items, and
\* was rejected
C3_Witness ==
    /\ proposal.kind = "birth"
    /\ ~proposal.accepted
    /\ \E p \in 1..patch_count : \E m \in 1..Len(patches[p]) :
          patches[p][m].location = proposal.position

(***************************************************************************)
(* C5: a load of a file a save wrote completely restores the simulator     *)
(* body, the owned agent ids, the owned semaphore ids and the server       *)
(* state, and a save of the loaded simulator writes the same file: load    *)
(* reads the fields in the order save writes them.                         *)
(***************************************************************************)
C5_SaveLoadRoundTrip ==
    /\ (snap.op = "loaded" /\ snap.saved = Py_True /\ snap.loaded.stage = "none") =>
          /\ snap.loaded.ret = "tuple"
          /\ snap.loaded.handle = snap.sim
    /\ (snap.op = "loaded" /\ snap.loaded.ret = "tuple") =>
          /\ snap.saved = Py_True
          /\ snap.file = <<snap.sim.body, Len(snap.sim.agent_ids)>> \o snap.sim.agent_ids
                            \o <<Len(snap.sim.semaphore_ids)>> \o snap.sim.semaphore_ids
                            \o <<snap.sim.server_state>>
    /\ snap.op = "resaved" => snap.resaved = snap.file

\* a simulator owning two agents and one semaphore, with different id lists,
\* was saved, loaded and saved again
C5_Witness ==
    /\ snap.op = "resaved"
    /\ Len(snap.sim.agent_ids) = 2
    /\ Len(snap.sim.semaphore_ids) = 1
    /\ snap.sim.agent_ids[1] # snap.sim.semaphore_ids[1]
    /\ snap.loaded.handle.agent_ids = snap.sim.agent_ids
    /\ snap.resaved = snap.file

(***************************************************************************)
(* C6: a load that fails at any stage returns NULL with an error set and   *)
(* no simulator handle, and the partially built simulator is released.     *)
(***************************************************************************)
C6_LoadFailure ==
    (snap.op = "loaded" /\ snap.loaded.stage # "none") =>
        /\ snap.loaded.ret = NULL
        /\ snap.loaded.err # "none"
        /\ ~snap.loaded.has_handle
        /\ ~snap.loaded.sim_allocated

(***************************************************************************)
(* C7: get_intensity_fn, get_interaction_fn and get_regeneration_fn return *)
(* a callable exactly when the tag is a built-in and num_args equals the   *)
(* declared parameter count (CONSTANT 1, CUSTOM at least 1), NULL          *)
(* otherwise.                                                              *)
(***************************************************************************)
C7_ArgCount ==
    fns.op = "resolved" =>
        ((fns.fn # NULL) <=> DeclaredArgCount(fns.kind, fns.type, fns.num_args))

(***************************************************************************)
(* C8: resolving a built-in tag and mapping the function back yields the   *)
(* tag; writing a function's tag and reading it back yields the function;  *)
(* distinct tags resolve to distinct functions; reading a tag that is not  *)
(* a built-in fails and assigns no function.                               *)
(***************************************************************************)
C8_TagRoundTrip ==
    /\ fns.op = "mapped" => fns.back = fns.type
    /\ fns.op = "read" => (fns.loaded.ok /\ fns.loaded.function = fns.fn)
    /\ (fns.op = "resolved" /\ fns.fn # NULL) =>
          \A type \in BuiltinTags(fns.kind), num_args \in 0..MaxNumArgs :
             type # fns.type => get_fn(fns.kind, type, num_args) # fns.fn
    /\ fns.op = "read_raw" =>
          IF fns.type \in BuiltinTags(fns.kind)
          THEN fns.loaded.ok /\ get_tag(fns.kind, fns.loaded.function) = fns.type
          ELSE ~fns.loaded.ok /\ fns.loaded.function = UNSET

\* the tag of FOUR was written and read back as four_interaction_fn
C8_Witness ==
    /\ fns.op = "read"
    /\ fns.kind = "interaction"
    /\ fns.type = interaction_fns.FOUR
    /\ fns.stream = <<interaction_fns.FOUR>>
    /\ fns.loaded = [ok |-> TRUE, function |-> "four_interaction_fn"]

(***************************************************************************)
(* C9: custom_regeneration_fn(pos, t, args) returns args[t] when t is      *)
(* smaller than the number of args and 0 for every other tick, and never   *)
(* reads outside the args array.                                           *)
(***************************************************************************)
C9_CustomRegeneration ==
    (regen.calls = 1 /\ regen.fn = "custom_regeneration_fn") =>
        /\ ~regen.oob
        /\ regen.value = IF regen.time < Len(regen.args)
                         THEN regen.args[regen.time + 1] ELSE 0

(***************************************************************************)
(* C10: the list simulator_agent_states returns is as long as the list of  *)
(* requested ids, and its i-th entry is the state of the agent with the    *)
(* i-th requested id, or None when no such agent exists, in local mode and *)
(* in client mode.                                                         *)
(***************************************************************************)
C10_AgentStates ==
    (qry.op = "done" /\ qry.ret = "list") =>
        /\ Len(qry.states) = Len(qry.ids)
        /\ \A i \in 1..Len(qry.ids) :
              qry.states[i] = IF qry.ids[i] \in qry.known
                              THEN [py |-> "agent", id |-> qry.ids[i], state |-> 10 * qry.ids[i]]
                              ELSE [py |-> "None", id |-> 0, state |-> 0]

\* a client asked for a known id, an unknown id and the known id again
C10_Witness ==
    /\ qry.op = "done"
    /\ qry.ret = "list"
    /\ qry.mode = "client"
    /\ Len(qry.ids) = 3
    /\ qry.ids[1] \in qry.known
    /\ qry.ids[2] \notin qry.known
    /\ qry.ids[3] = qry.ids[1]
    /\ qry.states[2].py = "None"
    /\ qry.states[3].py = "agent"

(***************************************************************************)
(* C11: in client mode a move, turn or no_op call returns True only if     *)
(* the server answered that same request with status OK.                   *)
(***************************************************************************)
C11_SameRequestAnswer ==
    \A t \in Threads :
        (/\ cli.threads[t].pc = "returned"
         /\ cli.threads[t].call \in ActCalls
         /\ cli.threads[t].result = Py_True)
        => /\ cli.threads[t].request # NoRequest
           /\ cli.answers[cli.threads[t].request] = "OK"

(***************************************************************************)
(* C12: in client mode set_active reports failure to its caller when the   *)
(* server answers the request with a status other than OK.                 *)
(***************************************************************************)
C12_SetActiveFailure ==
    \A t \in Threads :
        (/\ cli.threads[t].pc = "returned"
         /\ cli.threads[t].call = "set_active"
         /\ cli.threads[t].request # NoRequest
         /\ cli.answers[cli.threads[t].request] \in ClientStatuses \ {"OK"})
        => cli.threads[t].result = NULL

(***************************************************************************)
(* C13: simulator_get_permissions returns one boolean for each of the nine *)
(* permissions, in the order of PermissionNames, and after a successful    *)
(* set_permissions(client, P) it returns exactly P.                        *)
(***************************************************************************)
C13_GetPermissions ==
    perm.op = "get_permissions" =>
        /\ Len(perm.items) = Len(PermissionNames)
        /\ \A i \in 1..Len(PermissionNames) :
              perm.items[i] = IF perm.server[PermissionNames[i]] THEN Py_True ELSE Py_False
        /\ (perm.given # << >> /\ \A i \in DOMAIN perm.given : perm.given[i] # Py_None)
              => perm.items = perm.given

(***************************************************************************)
(* C14: simulator_reconnect_client returns a list whose entry i is the     *)
(* state tuple of the i-th agent id owned by the client, and a separate    *)
(* list whose entry i is the i-th semaphore id owned by the client.        *)
(***************************************************************************)
C14_ReconnectLists ==
    recon.ret = "tuple" =>
        /\ Len(recon.py_states) = Len(recon.agent_ids)
        /\ \A i \in 1..Len(recon.agent_ids) :
              recon.py_states[i] =
                  build_py_agent(agent_state(recon.agent_ids[i]), recon.agent_ids[i])
        /\ Len(recon.py_semaphore_ids) = Len(recon.semaphore_ids)
        /\ \A i \in 1..Len(recon.semaphore_ids) :
              recon.py_semaphore_ids[i] =
                  PyLong_FromUnsignedLongLong(recon.semaphore_ids[i])

\* The agents whose resolved move had the target cell.
Contenders(cell) ==
    {a \in Movers : /\ stp.resolved[a] \in MoveDirections
                    /\ target_cell(stp.before[a], stp.resolved[a]) = cell}

ContestedCells ==
    {target_cell(stp.before[a], stp.resolved[a]) : a \in Movers}

Smallest(S) == CHOOSE a \in S : \A b \in S : a <= b

(***************************************************************************)
(* C15: under FIRST_COME_FIRST_SERVE, when several agents request moves    *)
(* into the same cell in one tick, the agent with the smallest id obtains  *)
(* the cell, every other contender stays at its previous position, and the *)
(* tick advances for all of them (no action stays pending).                *)
(***************************************************************************)
C15_FirstComeFirstServe ==
    (stp.policy = "FIRST_COME_FIRST_SERVE" /\ stp.stepped) =>
        \A cell \in ContestedCells :
            Cardinality(Contenders(cell)) >= 2 =>
                /\ stp.position[Smallest(Contenders(cell))] = cell
                /\ \A a \in Contenders(cell) \ {Smallest(Contenders(cell))} :
                      stp.position[a] = stp.before[a]
                /\ \A a \in Contenders(cell) : stp.requested[a] = "NONE"
                /\ stp.time >= 1

C15_Witness ==
    /\ stp.policy = "FIRST_COME_FIRST_SERVE"
    /\ stp.stepped
    /\ \E cell \in ContestedCells : Cardinality(Contenders(cell)) = 3
    /\ stp.position[1] # stp.before[1]

\* The agent id is the only responder the quorum still waits for, and at
\* least one responder has reported.
LastOutstanding(id) ==
    /\ Outstanding(agents, semaphores, reporters) = {<<"agent", id>>}
    /\ acted_agent_count > 0

\* A step that marks the last outstanding agent inactive, or removes it,
\* advances the tick.
LastOutstandingLeaves ==
    \A id \in DOMAIN agents :
        (/\ LastOutstanding(id)
         /\ \/ last_call' = <<"remove_agent", id>>
            \/ last_call' = <<"set_active", id>> /\ ~agents'[id].active)
        => time' = time + 1

\* No state is left waiting while every active agent and every semaphore has
\* reported, whatever the inactive agents did.
InactiveNeverBlocks ==
    (acted_agent_count > 0) => Outstanding(agents, semaphores, reporters) # {}

SignaledBy(s) ==
    \/ s \in DOMAIN semaphores /\ semaphores[s]
    \/ last_call' = <<"signal_semaphore", s>>

\* A tick advance leaves every signaled semaphore signaled in the list that
\* get_semaphores returns.
TickKeepsSignaled ==
    (time' = time + 1) =>
        \A s \in DOMAIN semaphores' :
            SignaledBy(s) =>
                \E i \in 1..Len(build_py_semaphores(get_semaphores(semaphores'))) :
                    build_py_semaphores(get_semaphores(semaphores'))[i] = <<s, Py_True>>

(***************************************************************************)
(* C17: a signaled semaphore stays signaled after the tick advances: a     *)
(* tick advance alone never clears the flag get_semaphores reports.        *)
(***************************************************************************)
C17_SignaledPersists == [][TickKeepsSignaled]_vars

\* get_semaphores right after a tick advance that a signal completed
C17_Witness ==
    /\ time >= 1
    /\ step_info.time = time
    /\ step_info.trigger[1] = "signal_semaphore"
    /\ last_call = <<"get_semaphores", 0>>
    /\ reporters = {}
    /\ \E i \in 1..Len(build_py_semaphores(get_semaphores(semaphores))) :
          build_py_semaphores(get_semaphores(semaphores))[i][2] = Py_True

\* Requests for distinct agents, or for an agent and a semaphore, or for
\* distinct semaphores.
DistinctResponders(r1, r2) == r1.kind # r2.kind \/ r1.id # r2.id

\* Both requests arrive within the current tick, whichever comes first.
SameTick(r1, r2) ==
    /\ apply_request(SimState, r1).time = time
    /\ apply_request(SimState, r2).time = time

\* When the tick advances on the second request, both arrival orders of two
\* requests of the same tick end in the same simulator state.
OrdersAgree ==
    \A r1, r2 \in TickRequests :
        (/\ DistinctResponders(r1, r2)
         /\ SameTick(r1, r2)
         /\ apply_request(apply_request(SimState, r1), r2).time = time + 1)
        => apply_request(apply_request(SimState, r1), r2) = apply_request(apply_request(SimState, r2), r1)

\* The handlers change the simulator state as apply_request does.
HandlersAgree ==
    /\ last_call'[1] = "act" =>
          \E act \in Actions : SimState' = request_act(SimState, last_call'[2], act)
    /\ last_call'[1] = "signal_semaphore" =>
          SimState' = request_signal(SimState, last_call'[2])

ItemsKept(before, after) ==
    \A k \in DOMAIN before :
        \A i \in DOMAIN before[k] :
            \E j \in DOMAIN after[k] : after[k][j] = before[k][i]

(***************************************************************************)
(* C19: a regeneration pass (gibbs_field::resample) never removes or moves *)
(* an existing item, and when an item type has a non-zero regeneration     *)
(* value at the pass's tick it proposes births of that type.               *)
(***************************************************************************)
C19_RegenerationPass ==
    rs.calls > 0 =>
        /\ ItemsKept(rs.items_before, rs.items_after)
        /\ (\E item_type \in 0..(item_type_count - 1) :
                regeneration(item_type, rs.current_time) # 0)
              => rs.proposals >= 1

(***************************************************************************)
(* C20: for a stationary, non-constant interaction function and two        *)
(* distinct positions whose displacement lies in [-2n, 2n) on both axes,   *)
(* gibbs_field_cache::interaction returns the value of the function called *)
(* directly on (first_position, second_position).                          *)
(***************************************************************************)
C20_CacheAgrees ==
    (/\ ich.op = "lookup"
     /\ ich.first_position # ich.second_position
     /\ <<ich.first_position[1] - ich.second_position[1],
          ich.first_position[2] - ich.second_position[2]>> \in Displacements)
    => ich.cached = ich.direct

\* a lookup at the lower edge of the table, on a diagonal, with a value
C20_Witness ==
    /\ ich.op = "lookup"
    /\ ich.interaction.fn = "cross_interaction_fn"
    /\ ich.first_position[1] - ich.second_position[1] = -two_n
    /\ ich.first_position[2] - ich.second_position[2] = 1
    /\ ich.cached # 0


\* The function returns the same value for (pos1, pos2) and for both
\* positions moved by the same shift, for every call the model makes.
TranslationInvariant(interaction) ==
    \A pos1 \in FirstPositions, displacement \in WideDisplacements, shift \in Shifts :
        LET pos2 == <<pos1[1] - displacement[1], pos1[2] - displacement[2]>>
        IN call_interaction_fn(interaction, pos1, pos2)
             = call_interaction_fn(interaction,
                                   <<pos1[1] + shift[1], pos1[2] + shift[2]>>,
                                   <<pos2[1] + shift[1], pos2[2] + shift[2]>>)

(***************************************************************************)
(* C21: a built-in interaction function is classified is_stationary        *)
(* exactly when its value depends only on pos1 - pos2: the classified ones *)
(* return the same value for (p1, p2) and (p1 + d, p2 + d), and every      *)
(* built-in with that property is classified stationary.                   *)
(***************************************************************************)
C21_StationaryExactly ==
    ifn.op = "call"
    => (is_stationary_interaction(ifn.interaction.fn)
            <=> TranslationInvariant(ifn.interaction))

(***************************************************************************)
(* C22: every built-in interaction function returns 0 for two positions    *)
(* whose displacement is 2n or more on some axis.                          *)
(***************************************************************************)
C22_ZeroBeyondTwoN ==
    (/\ ifn.op = "call"
     /\ \/ abs(ifn.pos1[1] - ifn.pos2[1]) >= two_n
        \/ abs(ifn.pos1[2] - ifn.pos2[2]) >= two_n)
    => ifn.value = 0

(***************************************************************************)
(* C29: gibbs_field_cache::interaction returns 0 whenever the two          *)
(* positions are equal, for a tabulated function and for one that is       *)
(* called directly.                                                        *)
(***************************************************************************)
C29_SelfInteractionZero ==
    (ifn.op = "call" /\ ifn.pos1 = ifn.pos2) => ifn.cached = 0

\* equal positions, for a function that is called directly and whose own
\* value there is not 0
C29_Witness ==
    /\ ifn.op = "call"
    /\ ifn.pos1 = ifn.pos2
    /\ ~is_stationary_interaction(ifn.interaction.fn)
    /\ ifn.value # 0
    /\ ifn.cached = 0

\* The items of the patches of the quadrant neighborhood of a position of
\* patch i, as pairs <<patch, index>>.
NeighborItems(ps, i, position) ==
    UNION { {<<p, m>> : m \in 1..Len(ps[p])} :
            p \in Range(quadrant_neighborhood(i, position)) }

\* The sum of the values of a function with a finite domain.
SumOf(f) ==
    LET RECURSIVE sum(_)
        sum(D) == IF D = {} THEN 0
                  ELSE LET e == CHOOSE e \in D : TRUE IN f[e] + sum(D \ {e})
    IN sum(DOMAIN f)

\* intensity + the interactions with every neighbor in both directions
\* - log(m + 1) + log(item_type_count) + 2 log(n)
BirthValue(ps, i, position, item_type) ==
    cache_intensity(position, item_type)
      + SumOf([e \in NeighborItems(ps, i, position) |->
                 cache_interaction(position, ps[e[1]][e[2]].location,
                                   item_type, ps[e[1]][e[2]].item_type)
                 + cache_interaction(ps[e[1]][e[2]].location, position,
                                     ps[e[1]][e[2]].item_type, item_type)])
      - logarithm(Len(ps[current_patch(i)]) + 1)
      + logarithm(item_type_count)
      + 2 * logarithm(n)

BirthAtFreeCell ==
    (proposal'.kind = "birth" /\ ~OccupiedCell(proposal'.position))
    => LET value == BirthValue(patches, proposal'.patch, proposal'.position,
                               proposal'.item_type)
           current == current_patch(proposal'.patch)
       IN /\ proposal'.log_acceptance = value
          /\ proposal'.accepted = (proposal'.log_random < value)
          /\ value > 0 => proposal'.accepted
          /\ patches' = IF proposal'.log_random < value
                        THEN [patches EXCEPT ![current] =
                                Append(@, [item_type |-> proposal'.item_type,
                                           location |-> proposal'.position,
                                           creation_time |-> 0, deletion_time |-> 0])]
                        ELSE patches

(***************************************************************************)
(* C23: the birth of item type t at a free cell pos of a patch holding m   *)
(* items has the log-acceptance value intensity(pos, t) + the sum over the *)
(* items (q, u) of the cell's quadrant neighborhood of interaction(pos, q, *)
(* t, u) + interaction(q, pos, u, t) - log(m + 1) + log(item_type_count)   *)
(* + 2 log(n); the item is added iff log(r) is below that value, so a      *)
(* proposal with a positive value is always accepted.                      *)
(***************************************************************************)
C23_BirthAcceptance == [][BirthAtFreeCell]_vars

\* a birth next to other items, with a positive value, accepted on the
\* draw r = 1
C23_Witness ==
    /\ proposal.kind = "birth"
    /\ proposal.accepted
    /\ proposal.log_acceptance > 0
    /\ proposal.log_random = 0
    /\ proposal.count >= 1

DeathNegatesBirth ==
    proposal'.kind = "death"
    => LET i == proposal'.patch
           current == current_patch(i)
           without == [patches EXCEPT ![current] = array_remove(@, proposal'.item_index + 1)]
       IN proposal'.log_acceptance =
            -birth_log_acceptance(
                 neighborhood_items(without, quadrant_neighborhood(i, proposal'.position)),
                 without[current], proposal'.position, proposal'.item_type)

(***************************************************************************)
(* C24: the log-acceptance value of the death that removes item x from a   *)
(* patch state S plus x is the negation of the log-acceptance value of the *)
(* birth that adds x to S.                                                 *)
(***************************************************************************)
C24_DeathNegatesBirth == [][DeathNegatesBirth]_vars

\* the death of one of two items of a patch, accepted, with a value that is
\* not 0
C24_Witness ==
    /\ proposal.kind = "death"
    /\ proposal.accepted
    /\ proposal.count = 2
    /\ proposal.log_acceptance # 0

\* The patches visited so far in this call are 1, 2, ... in that order, and
\* a call that has returned has visited all of them.
VisitsInOrder ==
    /\ sweep.visited = [k \in 1..Len(sweep.visited) |-> k]
    /\ sweep.pc = "loop" => (patch_i = Len(sweep.visited) + 1 /\ patch_i <= patch_count)
    /\ sweep.pc = "idle" => Len(sweep.visited) \in {0, patch_count}

\* Since the call started a patch's item count moved by at most one, and
\* only if the patch was visited.
CountsMoveByOne ==
    \A k \in 1..patch_count :
        /\ abs(ItemCounts[k] - sweep.start[k]) <= 1
        /\ (sweep.pc = "loop" /\ k >= patch_i) => ItemCounts[k] = sweep.start[k]

\* One iteration touches only the patch it visits.
OnePatchPerIteration ==
    \A p \in DOMAIN patches :
        patches'[p] # patches[p] => (sweep.pc = "loop" /\ p = current_patch(patch_i))

(***************************************************************************)
(* C25: one call of sample visits each of the patch_count patches once, in *)
(* index order, and makes at most one proposal on it, so a patch's item    *)
(* count changes by at most one per call; the call terminates.             *)
(***************************************************************************)
C25_OneVisitPerPatch ==
    /\ [](VisitsInOrder /\ CountsMoveByOne)
    /\ [][OnePatchPerIteration]_vars
    /\ (sweep.pc = "loop") ~> (sweep.pc = "idle")

\* a call has returned after visiting both patches, and each patch's item
\* count differs from the count at entry
C25_Witness ==
    /\ sweep.pc = "idle"
    /\ sweep.visited = <<1, 2>>
    /\ \A k \in 1..patch_count : ItemCounts[k] # sweep.start[k]

DeathOnlyOnItems ==
    /\ proposal'.kind = "death" =>
          /\ Len(patches[current_patch(proposal'.patch)]) >= 1
          /\ proposal'.item_index < Len(patches[current_patch(proposal'.patch)])
    /\ proposal'.kind = "skip" =>
          /\ Len(patches[current_patch(proposal'.patch)]) = 0
          /\ patches' = patches

(***************************************************************************)
(* C26: a death is proposed only on a patch that holds an item, the index  *)
(* of the item chosen is smaller than the patch's item count, and when the *)
(* coin selects death on an empty patch the patch is left unchanged.       *)
(***************************************************************************)
C26_DeathNeedsItem ==
    /\ [](proposal.kind = "death" =>
            (proposal.count >= 1 /\ proposal.item_index < proposal.count))
    /\ [][DeathOnlyOnItems]_vars

\* the death of the last of two items: the largest index the draw can give
C26_Witness ==
    /\ proposal.kind = "death"
    /\ proposal.count = 2
    /\ proposal.item_index = 1

\* Every item of a sampled patch has creation tick 0 and deletion tick 0.
AllAlive ==
    \A k \in 1..patch_count : \A m \in 1..Len(patches[current_patch(k)]) :
        /\ patches[current_patch(k)][m].creation_time = 0
        /\ patches[current_patch(k)][m].deletion_time = 0

\* An accepted death takes the item out of the list.
DeathRemoves ==
    (proposal'.kind = "death" /\ proposal'.accepted)
    => LET current == current_patch(proposal'.patch)
       IN /\ Len(patches'[current]) = Len(patches[current]) - 1
          /\ \A m \in 1..Len(patches'[current]) :
                patches'[current][m].location # proposal'.position

(***************************************************************************)
(* C27: the sampler creates no ghosts: every item it adds has creation     *)
(* tick 0 and deletion tick 0, and an accepted death removes the item from *)
(* the patch's list, so every item of a sampled patch is alive.            *)
(***************************************************************************)
C27_NoGhosts == []AllAlive /\ [][DeathRemoves]_vars

\* an accepted death in a patch that still holds another item
C27_Witness ==
    /\ proposal.kind = "death"
    /\ proposal.accepted
    /\ Len(patches[current_patch(proposal.patch)]) >= 1

(***************************************************************************)
(* C28: every item of the patch at patch coordinate P lies in the patch,   *)
(* P.x*n <= x < P.x*n + n and P.y*n <= y < P.y*n + n, and its item type is *)
(* smaller than item_type_count, at negative coordinates too.              *)
(***************************************************************************)
C28_ItemsInsidePatch ==
    \A k \in 1..patch_count : \A m \in 1..Len(patches[current_patch(k)]) :
        LET item == patches[current_patch(k)][m]
            P == patch_positions[k]
        IN /\ P[1] * n <= item.location[1] /\ item.location[1] < P[1] * n + n
           /\ P[2] * n <= item.location[2] /\ item.location[2] < P[2] * n + n
           /\ item.item_type \in 0..(item_type_count - 1)

\* an item in the patch at the negative coordinate and one in the patch at
\* the origin, the first at the upper right cell of its patch
C28_Witness ==
    /\ Len(patches[current_patch(1)]) >= 1
    /\ Len(patches[current_patch(2)]) >= 1
    /\ patches[current_patch(1)][1].location = <<-1, 1>>
    /\ patch_positions[1][1] < 0

\* The cells of a patch of the given size.
PatchCells(size) == (0..(size - 1)) \X (0..(size - 1))

(***************************************************************************)
(* C30: in Gibbs mode the four position lists built by init_helper         *)
(* partition the n x n cells of a patch: every cell is in exactly one      *)
(* list, every list entry is a cell of the patch, each list holds          *)
(* (n/2)*(n/2) entries and nothing is written past a list's end, and one   *)
(* sweep hands each cell to gibbs_sample_cell exactly once; for every      *)
(* patch size, odd sizes included.                                         *)
(***************************************************************************)
C30_QuadrantsPartition ==
    /\ gib.pc \in {"shuffle", "sweep", "done"} =>
          /\ \A cell \in PatchCells(gib.n) :
                Cardinality({<<q, k>> \in Range(Quadrants) \X (1..list_capacity(gib.n)) :
                                gib.lists[q][k] = cell}) = 1
          /\ \A q \in Range(Quadrants) :
                /\ Len(gib.lists[q]) = list_capacity(gib.n)
                /\ gib.overflow[q] = 0
                /\ Range(gib.lists[q]) \subseteq PatchCells(gib.n)
    /\ gib.pc = "done" =>
          /\ Len(gib.visited) = gib.n * gib.n
          /\ Range(gib.visited) = PatchCells(gib.n)
    /\ gib.pc # "failed"

\* The number of times an element occurs in an array.
Occurrences(array, e) == Cardinality({k \in 1..Len(array) : array[k] = e})

IsPermutationOf(array, original) ==
    /\ Len(array) = Len(original)
    /\ \A e \in ShuffleElements \cup {"?"} : Occurrences(array, e) = Occurrences(original, e)

\* C37: shuffle leaves the array a permutation of its original contents
\* (same length, same multiset), touches no index outside [0, length), and
\* ends by returning, for every length >= 0 and every sequence of draws:
\* the call never fails and its loop index stays below the length.
C37_ShufflePermutes ==
    /\ shf.pc = "done" => IsPermutationOf(shf.array, shf.original)
    /\ shf.touched \subseteq 0..(shf.length - 1)
    /\ shf.pc # "failed"
    /\ shf.pc = "loop" => shf.i \in 0..(shf.length - 1)

\* The cells of the patch with index k of the world.
CellsOfPatch(k) ==
    {<<world_positions[k][1] * n + c[1], world_positions[k][2] * n + c[2]>> : c \in PatchCells(n)}

\* Every position of the patches of one quadrant neighborhood.
BlockPositions(nb) == UNION {CellsOfPatch(nb[k]) : k \in 1..Len(nb)}

IndexInTable(index) ==
    /\ 0 <= index[1] /\ index[1] < four_n
    /\ 0 <= index[2] /\ index[2] < four_n

\* C36: for any two positions of one quadrant neighborhood the table index
\* first - second + (2n, 2n) of gibbs_field_cache::interaction lies in
\* 0..4n-1 on both axes; in particular the index of every lookup sample can
\* make, between a cell of the sampled patch and an item of the cell's
\* quadrant neighborhood, in both argument orders.
C36_IndexInsideTable ==
    /\ \A i \in 1..patch_count : \A q \in Range(Quadrants) :
          \A p1, p2 \in BlockPositions(neighborhoods(patch_positions[i])[q]) :
              IndexInTable(table_index(p1, p2))
    /\ \A i \in 1..patch_count : \A cell \in CellsOfPatch(current_patch(i)) :
          LET items == neighborhood_items(patches, quadrant_neighborhood(i, cell))
          IN \A m \in 1..Len(items) :
                /\ IndexInTable(table_index(cell, items[m].location))
                /\ IndexInTable(table_index(items[m].location, cell))

\* a birth was proposed at a cell whose quadrant neighborhood holds an item
\* of another patch, n cells away on the x axis
C36_Witness ==
    /\ proposal.kind = "birth"
    /\ LET items == neighborhood_items(patches,
                        quadrant_neighborhood(proposal.patch, proposal.position))
       IN \E m \in 1..Len(items) :
             /\ items[m].location \notin CellsOfPatch(current_patch(proposal.patch))
             /\ proposal.position[1] - items[m].location[1] = n

\* The patch at patch_positions[i]: entry 0 of each of its neighborhoods.
SampledPatch == PatchIndex(patch_positions[patch_i])

\* The patches of the world that are not in the batch.
FixedPatches == (patch_count + 1)..Len(world_positions)

\* A step of the loop changes no item list but that of the sampled patch,
\* and changes that one by appending one item or removing one item.
OnlySampledPatchChanges ==
    IF sweep.pc = "loop"
    THEN /\ \A p \in DOMAIN patches : p # SampledPatch => patches'[p] = patches[p]
         /\ \/ patches'[SampledPatch] = patches[SampledPatch]
            \/ \E t \in 0..(item_type_count - 1), cell \in CellsOfPatch(SampledPatch) :
                  patches'[SampledPatch] = Append(patches[SampledPatch], new_item(t, cell))
            \/ \E k \in 1..Len(patches[SampledPatch]) :
                  patches'[SampledPatch] = array_remove(patches[SampledPatch], k)
    ELSE patches' = patches

FixedPatchesKept == \A p \in FixedPatches : patches[p] = FixedItems

(***************************************************************************)
(* C35: sample adds or removes items only in the patch being sampled (the  *)
(* patch at entry 0 of its neighborhoods): every step of the call leaves   *)
(* the item lists of all other patches as they were, and a fixed patch     *)
(* that is only a neighbor keeps its items through every call.  The        *)
(* patch-position and neighborhood arrays are read-only members of         *)
(* gibbs_field (lines 255-256) and are definitions of this model.          *)
(***************************************************************************)
C35_OnlySampledPatch ==
    /\ []FixedPatchesKept
    /\ [][OnlySampledPatchChanges]_vars

\* a birth was accepted at a cell whose quadrant neighborhood holds the
\* fixed patch
C35_Witness ==
    /\ proposal.kind = "birth"
    /\ proposal.accepted
    /\ \E k \in 1..Len(quadrant_neighborhood(proposal.patch, proposal.position)) :
          quadrant_neighborhood(proposal.patch, proposal.position)[k] \in FixedPatches

\* simulator_load got a file from open_file.
LoadOpenedFile == snap.loaded.stage \notin {"malloc_sim", "open_file"}

(***************************************************************************)
(* C34: on every path through simulator_load and simulator_save the file   *)
(* that was opened is closed exactly once: a call that opened a file has   *)
(* called fclose on it once when it returns, never twice and never not at  *)
(* all, and a call that opened none has closed none.                       *)
(***************************************************************************)
C34_ClosedExactlyOnce ==
    /\ snap.op # "new" => snap.save_fclose = snap.save_fopen
    /\ snap.op \in {"loaded", "resaved"} =>
          snap.loaded.fclose_count = (IF LoadOpenedFile THEN 1 ELSE 0)

(***************************************************************************)
(* C32: whenever on_step runs, every id of the owned agent-id list refers  *)
(* to an agent in the agent table, under every interleaving with local     *)
(* add_agent and remove_agent calls: the callback looked up no id that the *)
(* table does not hold and delivered one state per id of the list.         *)
(***************************************************************************)
C32_OwnedIdsPresent ==
    own.step.ran =>
        /\ \A i \in 1..Len(own.step.ids) : own.step.ids[i] \in own.step.table
        /\ Len(own.step.states) = Len(own.step.ids)
        /\ \A i \in 1..Len(own.step.states) : own.step.states[i] # 0

\* Thread t is inside wait_for_server.
InWait(t) == wt.pc[t] \in {"lock", "test", "wait", "blocked"}

(***************************************************************************)
(* C31: a thread in wait_for_server eventually returns once the response   *)
(* callback for its request has run or on_lost_connection has run, under   *)
(* every interleaving of the waiting threads with the listener thread: no  *)
(* wake-up is lost.                                                        *)
(***************************************************************************)
C31_WaiterReturns ==
    \A t \in Waiters :
        (InWait(t) /\ (t \in wt.answered \/ wt.listener = "lost")) ~> (wt.pc[t] = "returned")

(***************************************************************************)
(* C33: simulator_agent_states, simulator_get_x_coordinates (local mode)   *)
(* and simulator_load unlock every agent lock acquired through             *)
(* get_agent_states exactly once before they return, on the success path   *)
(* and on every failure path, and unlock no agent that was not found.      *)
(***************************************************************************)
C33_LocksReleasedOnce ==
    lk.op # "new" =>
        /\ lk.ret # "abort"
        /\ \A a \in 1..MaxId : lk.unlocked[a] = lk.acquired[a]
====
